---------------------------- MODULE Spec2Model ----------------------------
(***************************************************************************)
(* libsql-search: embedding providers (embeddings.ts), the content indexer *)
(* (indexer.ts), the read operations (search.ts) and the store they use.   *)
(*                                                                         *)
(* Seven specifications share the module:                                  *)
(*   SpecPad    padEmbedding as a pure function over bounded vectors       *)
(*   SpecText   prepareTextForEmbedding as a pure function over bounded    *)
(*              fields                                                     *)
(*   SpecEmbed  generateEmbedding calls interleaving at their awaits,      *)
(*              sharing the process-wide providerCache                     *)
(*   Spec       indexContent runs of one caller against a table created    *)
(*              beforehand, or against a store without the table           *)
(*   SpecCreate createTable calls, statement by statement, in turn with    *)
(*              indexContent runs of the same caller                       *)
(*   SpecRead   search and the listing operations of one caller against a  *)
(*              table that does not change                                 *)
(*   SpecConcurrent  indexContent runs of two callers overlapping on one   *)
(*              table                                                      *)
(***************************************************************************)
EXTENDS Integers, Sequences, FiniteSets, TLC

VARIABLES
    padPc, padV, padN, padOut,              \* padEmbedding: input, output
    calls, issued, providerCache, env,      \* generateEmbedding calls in flight
    pipelineLoads, geminiClients, backendRequests,
    pathSep,                                \* path.sep of the platform
    schema, table, nextId,                  \* the store: the articles table
    runs, started,                          \* indexContent runs
    ddl,                                    \* createTable calls and their outcome
    reader,                                 \* the read operation in progress
    textPc, textFields, textOut             \* prepareTextForEmbedding: input, output

padVars == <<padPc, padV, padN, padOut>>
embVars == <<calls, issued, providerCache, env, pipelineLoads, geminiClients, backendRequests>>
idxVars == <<pathSep, schema, table, nextId, runs, started, ddl>>
readVars == <<reader>>
textVars == <<textPc, textFields, textOut>>
vars == <<padVars, embVars, idxVars, readVars, textVars>>

----------------------------------------------------------------------------
(* Bounds of the model *)

\* longest input vector of padEmbedding
MaxLen == 3
\* largest target dimension of padEmbedding
MaxTarget == 4
\* number of generateEmbedding calls one behaviour issues
MaxCalls == 2
\* number of indexContent runs one behaviour starts
MaxRuns == 2
\* number of createTable calls one behaviour makes
MaxCreates == 2

(* Program constants *)

\* `dimensions = 768` default of generateEmbedding
DefaultDimensions == 768
\* `maxLength = 8000` default of generateEmbedding
DefaultMaxLength == 8000
\* Xenova/all-MiniLM-L6-v2 output size
LocalNativeDims == 384
\* text-embedding-004 output size
GeminiNativeDims == 768
\* `dimensions <= 1536` selects text-embedding-3-small
OpenAISmallMaxDims == 1536
\* text-embedding-3-large output size
OpenAILargeMaxDims == 3072

\* an optional string that was not given (JS undefined)
Undefined == "undefined"
\* an optional number that was not given (JS undefined)
UndefinedNum == -1

Min(a, b) == IF a < b THEN a ELSE b

----------------------------------------------------------------------------
(* padEmbedding *)

\* new Array(n).fill(x)
Fill(n, x) == [k \in 1..n |-> x]

\* Array.prototype.slice(start, end), 0-based, end exclusive
Slice(s, start, end) == SubSeq(s, start + 1, Min(end, Len(s)))

\* the array after Array.prototype.splice(start, deleteCount, ...items)
Splice(s, start, deleteCount, items) ==
    SubSeq(s, 1, start) \o items
        \o SubSeq(s, start + Min(deleteCount, Len(s) - start) + 1, Len(s))

\* padEmbedding whose splice inserts without replacing the zeros
padEmbedding_InsertOnly(embedding, targetDimensions) ==
    IF Len(embedding) = targetDimensions THEN embedding
    ELSE IF Len(embedding) > targetDimensions
         THEN Slice(embedding, 0, targetDimensions)
         ELSE Splice(Fill(targetDimensions, 0), 0, 0, embedding)

\* padEmbedding(embedding, targetDimensions)
padEmbedding(embedding, targetDimensions) ==
    IF Len(embedding) = targetDimensions THEN embedding
    ELSE IF Len(embedding) > targetDimensions
         THEN Slice(embedding, 0, targetDimensions)
         ELSE Splice(Fill(targetDimensions, 0), 0, Len(embedding), embedding)

PadValues == {0, 1, 2}
PadVectors == UNION {[1..n -> PadValues] : n \in 0..MaxLen}

PadInit ==
    /\ padPc = "in"
    /\ padV \in PadVectors
    /\ padN \in 0..MaxTarget
    /\ padOut = <<>>

PadIdle ==
    /\ padPc = "off" /\ padV = <<>> /\ padN = 0 /\ padOut = <<>>

ApplyPad ==
    /\ padPc = "in"
    /\ padOut' = padEmbedding(padV, padN)
    /\ padPc' = "out"
    /\ UNCHANGED <<padV, padN, embVars, idxVars, readVars, textVars>>

----------------------------------------------------------------------------
(* generateEmbedding and the provider cache *)

\* the callers of generateEmbedding on its own: two call sites of a program
Callers == {"indexer", "search"}
\* the callers of indexContent; each run's generateEmbedding calls have a frame
\* of their own, and so have those of the search operation ("search")
Runners == {"a", "b"}
CallSlots == Callers \cup Runners

Providers == {Undefined, "local", "gemini", "openai", "unknown"}
ApiKeys == {Undefined, "K1"}
DimensionChoices == {UndefinedNum, 384, 1536}
MaxLengthChoices == {UndefinedNum, 2}
Texts == {<<"a", "b", "c">>}

\* the options callers pass: every provider, key and dimension, and one call
\* that sets maxLength below the text's length
EmbeddingOptions ==
    [provider : Providers, apiKey : ApiKeys,
     dimensions : DimensionChoices, maxLength : {UndefinedNum}]
    \cup [provider : {Undefined}, apiKey : {Undefined},
          dimensions : {UndefinedNum}, maxLength : MaxLengthChoices]

\* an empty cache slot, and the handle a slot holds
NoHandle == [id |-> 0, key |-> ""]

\* JS truthiness of an optional string
Truthy(s) == s # Undefined /\ s # ""

\* String.prototype.substring(0, maxLength)
Substring(text, maxLength) == SubSeq(text, 1, Min(maxLength, Len(text)))

\* ResolveKey with a placeholder key substituted when none is given
ResolveKey_Fallback(apiKey, envKey) ==
    IF Truthy(apiKey) THEN apiKey ELSE IF Truthy(envKey) THEN envKey ELSE "anonymous"

\* `apiKey || process.env.X`
ResolveKey(apiKey, envKey) == IF Truthy(apiKey) THEN apiKey ELSE envKey

NoOptions ==
    [provider |-> Undefined, apiKey |-> Undefined,
     dimensions |-> UndefinedNum, maxLength |-> UndefinedNum]

\* a caller's frame: the options it passed, the locals of generateEmbedding and
\* of the provider function, and how its promise settled
IdleCall ==
    [pc |-> "idle", id |-> 0, options |-> NoOptions,
     provider |-> Undefined, apiKey |-> Undefined,
     dimensions |-> UndefinedNum, text |-> <<>>, handle |-> NoHandle,
     len |-> -1, error |-> ""]

EmbedIdle ==
    /\ calls = [c \in CallSlots |-> IdleCall]
    /\ issued = 0
    /\ providerCache = [local |-> NoHandle, gemini |-> NoHandle]
    /\ pipelineLoads = 0
    /\ geminiClients = 0
    /\ backendRequests = 0

EmbedInit ==
    /\ EmbedIdle
    /\ env \in {[GEMINI_API_KEY |-> Undefined, OPENAI_API_KEY |-> Undefined],
                [GEMINI_API_KEY |-> "KE", OPENAI_API_KEY |-> "KE"]}

\* the model's 384-element output, padded: `padEmbedding(embedding, targetDimensions)`
LocalEmbedding(dimensions) == padEmbedding(Fill(LocalNativeDims, 1), dimensions)

\* the embeddings endpoint honours `dimensions` up to the selected model's size
OpenAIAccepts(dimensions) ==
    /\ dimensions >= 1
    /\ dimensions <= (IF dimensions <= OpenAISmallMaxDims
                      THEN OpenAISmallMaxDims ELSE OpenAILargeMaxDims)

\* the call's promise rejects with `message`
Reject(c, frame, message) ==
    calls' = [calls EXCEPT ![c] = [frame EXCEPT !.pc = "rejected", !.error = message]]

\* the call's promise resolves with a vector of `len` elements
Resolve(c, frame, len) ==
    calls' = [calls EXCEPT ![c] = [frame EXCEPT !.pc = "resolved", !.len = len]]

\* generateLocalEmbedding up to its first await
generateLocalEmbedding(c, frame) ==
    /\ IF providerCache.local = NoHandle
       THEN calls' = [calls EXCEPT ![c] = [frame EXCEPT !.pc = "loading"]]
       ELSE calls' = [calls EXCEPT ![c] =
                        [frame EXCEPT !.pc = "inferring", !.handle = providerCache.local]]
    /\ backendRequests' = backendRequests + 1
    /\ UNCHANGED <<providerCache, pipelineLoads, geminiClients>>

\* generateGeminiEmbedding up to its first await
generateGeminiEmbedding(c, frame) ==
    LET key == ResolveKey(frame.apiKey, env.GEMINI_API_KEY)
        f == [frame EXCEPT !.apiKey = key]
    IN  IF ~Truthy(key)
        THEN /\ Reject(c, f, "GEMINI_API_KEY is required for Gemini embeddings")
             /\ UNCHANGED <<providerCache, pipelineLoads, geminiClients, backendRequests>>
        ELSE /\ IF providerCache.gemini = NoHandle
                THEN calls' = [calls EXCEPT ![c] = [f EXCEPT !.pc = "importing"]]
                ELSE calls' = [calls EXCEPT ![c] =
                        [f EXCEPT !.pc = "embedding", !.handle = providerCache.gemini]]
             /\ backendRequests' = backendRequests + 1
             /\ UNCHANGED <<providerCache, pipelineLoads, geminiClients>>

\* generateOpenAIEmbedding up to its first await
generateOpenAIEmbedding(c, frame) ==
    LET key == ResolveKey(frame.apiKey, env.OPENAI_API_KEY)
        f == [frame EXCEPT !.apiKey = key]
    IN  IF ~Truthy(key)
        THEN /\ Reject(c, f, "OPENAI_API_KEY is required for OpenAI embeddings")
             /\ UNCHANGED <<providerCache, pipelineLoads, geminiClients, backendRequests>>
        ELSE /\ calls' = [calls EXCEPT ![c] = [f EXCEPT !.pc = "fetching"]]
             /\ backendRequests' = backendRequests + 1
             /\ UNCHANGED <<providerCache, pipelineLoads, geminiClients>>

\* generateEmbedding(text, options) up to the first await of the provider it selects
generateEmbedding(c, text, options) ==
    LET provider == IF options.provider = Undefined THEN "local" ELSE options.provider
        dimensions == IF options.dimensions = UndefinedNum
                      THEN DefaultDimensions ELSE options.dimensions
        maxLength == IF options.maxLength = UndefinedNum
                     THEN DefaultMaxLength ELSE options.maxLength
        truncated == Substring(text, maxLength)
        frame == [IdleCall EXCEPT !.id = issued + 1, !.options = options,
                                  !.provider = provider, !.apiKey = options.apiKey,
                                  !.dimensions = dimensions, !.text = truncated]
    IN  CASE provider = "local" -> generateLocalEmbedding(c, frame)
          [] provider = "gemini" -> generateGeminiEmbedding(c, frame)
          [] provider = "openai" -> generateOpenAIEmbedding(c, frame)
          [] OTHER ->
                /\ Reject(c, frame, "Unknown embedding provider: " \o provider)
                /\ UNCHANGED <<providerCache, pipelineLoads, geminiClients, backendRequests>>

\* the bodies `await response.text()` can give for a failed request
ErrorBodies == {"", "{\"error\":\"quota\"}"}

\* generateEmbedding is invoked: the call gets the next id
Invoke(c, text, options) ==
    /\ issued' = issued + 1
    /\ generateEmbedding(c, text, options)
    /\ UNCHANGED env

\* a caller invokes generateEmbedding
Call(c) ==
    /\ calls[c].pc \in {"idle", "resolved", "rejected"}
    /\ issued < MaxCalls
    /\ \E text \in Texts, options \in EmbeddingOptions : Invoke(c, text, options)
    /\ UNCHANGED <<padVars, idxVars, readVars, textVars>>

\* `providerCache.local = await pipeline(...)` settles, then the model is invoked
PipelineSettled(c) ==
    /\ calls[c].pc = "loading"
    /\ \E loaded \in BOOLEAN :
          IF loaded
          THEN LET h == [id |-> pipelineLoads + 1, key |-> ""]
               IN  /\ providerCache' = [providerCache EXCEPT !.local = h]
                   /\ pipelineLoads' = pipelineLoads + 1
                   /\ backendRequests' = backendRequests + 1
                   /\ calls' = [calls EXCEPT ![c].pc = "inferring", ![c].handle = h]
          ELSE /\ Reject(c, calls[c], "pipeline failed")
               /\ UNCHANGED <<providerCache, pipelineLoads, backendRequests>>
    /\ UNCHANGED geminiClients

\* `await providerCache.local(text, ...)` settles; the output is padded
InferenceSettled(c) ==
    /\ calls[c].pc = "inferring"
    /\ \E ok \in BOOLEAN :
          IF ok
          THEN Resolve(c, calls[c],
                       Len(LocalEmbedding(calls[c].dimensions)))
          ELSE Reject(c, calls[c], "inference failed")
    /\ UNCHANGED <<providerCache, pipelineLoads, geminiClients, backendRequests>>

\* `await import('@google/generative-ai')` settles; the client is built and cached
ImportSettled(c) ==
    /\ calls[c].pc = "importing"
    /\ \E imported \in BOOLEAN :
          IF imported
          THEN LET h == [id |-> geminiClients + 1, key |-> calls[c].apiKey]
               IN  /\ providerCache' = [providerCache EXCEPT !.gemini = h]
                   /\ geminiClients' = geminiClients + 1
                   /\ backendRequests' = backendRequests + 1
                   /\ calls' = [calls EXCEPT ![c].pc = "embedding", ![c].handle = h]
          ELSE /\ Reject(c, calls[c], "import failed")
               /\ UNCHANGED <<providerCache, geminiClients, backendRequests>>
    /\ UNCHANGED pipelineLoads

\* `await providerCache.gemini.embedContent(text)` settles
EmbedContentSettled(c) ==
    /\ calls[c].pc = "embedding"
    /\ \E ok \in BOOLEAN :
          IF ok
          THEN Resolve(c, calls[c], GeminiNativeDims)
          ELSE Reject(c, calls[c], "embedContent failed")
    /\ UNCHANGED <<providerCache, pipelineLoads, geminiClients, backendRequests>>

\* `await fetch(...)` settles: fetch rejects, or there is a response, whose
\* body is then awaited: `response.text()` when `!response.ok`, else
\* `response.json()`
FetchSettled(c) ==
    /\ calls[c].pc = "fetching"
    /\ \E outcome \in {"network", "status"} \cup
                      (IF OpenAIAccepts(calls[c].dimensions) THEN {"ok"} ELSE {}) :
          CASE outcome = "network" -> Reject(c, calls[c], "fetch failed")
            [] outcome = "status" -> calls' = [calls EXCEPT ![c].pc = "errorBody"]
            [] outcome = "ok" -> calls' = [calls EXCEPT ![c].pc = "jsonBody"]
    /\ UNCHANGED <<providerCache, pipelineLoads, geminiClients, backendRequests>>

\* `await response.text()` settles: `throw new Error(`OpenAI API error: ${error}`)`
ErrorBodySettled(c) ==
    /\ calls[c].pc = "errorBody"
    /\ \/ \E body \in ErrorBodies : Reject(c, calls[c], "OpenAI API error: " \o body)
       \/ Reject(c, calls[c], "terminated")
    /\ UNCHANGED <<providerCache, pipelineLoads, geminiClients, backendRequests>>

\* `await response.json()` settles: it rejects, or `data.data[0].embedding` is
\* read from the parsed body
JsonBodySettled(c) ==
    /\ calls[c].pc = "jsonBody"
    /\ \E outcome \in {"embedding", "malformed", "syntax"} :
          CASE outcome = "embedding" -> Resolve(c, calls[c], calls[c].dimensions)
            [] outcome = "malformed" ->
                  Reject(c, calls[c], "Cannot read properties of undefined (reading '0')")
            [] outcome = "syntax" -> Reject(c, calls[c], "Unexpected end of JSON input")
    /\ UNCHANGED <<providerCache, pipelineLoads, geminiClients, backendRequests>>

\* the pending await of a generateEmbedding call settles
AwaitSettled(c) ==
    \/ PipelineSettled(c)
    \/ InferenceSettled(c)
    \/ ImportSettled(c)
    \/ EmbedContentSettled(c)
    \/ FetchSettled(c)
    \/ ErrorBodySettled(c)
    \/ JsonBodySettled(c)

\* a generateEmbedding call has an await pending
InFlight(c) == calls[c].pc \notin {"idle", "resolved", "rejected"}

\* the awaits of calls made on their own
EmbedUnchanged == UNCHANGED <<env, issued, padVars, idxVars, readVars, textVars>>
PipelineSettles(c) == PipelineSettled(c) /\ EmbedUnchanged
InferenceSettles(c) == InferenceSettled(c) /\ EmbedUnchanged
ImportSettles(c) == ImportSettled(c) /\ EmbedUnchanged
EmbedContentSettles(c) == EmbedContentSettled(c) /\ EmbedUnchanged
FetchSettles(c) == FetchSettled(c) /\ EmbedUnchanged
ErrorBodySettles(c) == ErrorBodySettled(c) /\ EmbedUnchanged
JsonBodySettles(c) == JsonBodySettled(c) /\ EmbedUnchanged

EmbedNext ==
    \/ \E c \in Callers : Call(c)
    \/ \E c \in Callers : PipelineSettles(c)
    \/ \E c \in Callers : InferenceSettles(c)
    \/ \E c \in Callers : ImportSettles(c)
    \/ \E c \in Callers : EmbedContentSettles(c)
    \/ \E c \in Callers : FetchSettles(c)
    \/ \E c \in Callers : ErrorBodySettles(c)
    \/ \E c \in Callers : JsonBodySettles(c)

----------------------------------------------------------------------------
(* Strings of the indexer: sequences of one-character strings, so that the   *)
(* path and slug functions can be computed character by character            *)

S_md == <<".", "m", "d">>
S_markdown == <<".", "m", "a", "r", "k", "d", "o", "w", "n">>
S_txt == <<".", "t", "x", "t">>
S_root == <<"r", "o", "o", "t">>
S_dot == <<".">>
S_Untitled == <<"U", "n", "t", "i", "t", "l", "e", "d">>
S_node_modules == <<"n", "o", "d", "e", "_", "m", "o", "d", "u", "l", "e", "s">>
S_git == <<".", "g", "i", "t">>
S_dist == <<"d", "i", "s", "t">>
S_build == <<"b", "u", "i", "l", "d">>
S_nested == <<"n", "e", "s", "t", "e", "d">>
S_First == <<"F", "i", "r", "s", "t">>
S_Second == <<"S", "e", "c", "o", "n", "d">>

\* `fileExtensions = ['.md', '.markdown']`
DefaultFileExtensions == {S_md, S_markdown}
\* `exclude = ['node_modules', '.git', 'dist', 'build']`
DefaultExclude == {S_node_modules, S_git, S_dist, S_build}

\* the directory indexContent is pointed at
ContentPath == <<"c">>

\* String.prototype.startsWith
StartsWith(s, prefix) ==
    /\ Len(s) >= Len(prefix)
    /\ SubSeq(s, 1, Len(prefix)) = prefix

\* String.prototype.endsWith
EndsWith(s, suffix) ==
    /\ Len(s) >= Len(suffix)
    /\ SubSeq(s, Len(s) - Len(suffix) + 1, Len(s)) = suffix

\* 1-based position of the last occurrence of character ch in s, 0 when none
LastIndexOf(s, ch) ==
    LET at == {k \in 1..Len(s) : s[k] = ch}
    IN  IF at = {} THEN 0 ELSE CHOOSE k \in at : \A j \in at : j <= k

\* String.prototype.replace(/x/g, y) for single characters
ReplaceAll(s, ch, by) == [k \in 1..Len(s) |-> IF s[k] = ch THEN by ELSE s[k]]

\* path.extname of a file name: from its last dot, unless that dot leads the name
extname(name) ==
    LET k == LastIndexOf(name, ".")
    IN  IF k <= 1 THEN <<>> ELSE SubSeq(name, k, Len(name))

\* path.join(dir, name) under the platform separator
join(sep, dir, name) == dir \o <<sep>> \o name

\* path.relative(baseDir, fullPath) for a path below baseDir
relative(baseDir, fullPath) == SubSeq(fullPath, Len(baseDir) + 2, Len(fullPath))

\* path.dirname of a relative path
dirname(sep, path) ==
    LET k == LastIndexOf(path, sep)
    IN  IF k = 0 THEN S_dot ELSE SubSeq(path, 1, k - 1)

\* String.prototype.replace(/\.(md|markdown)$/, '')
StripMarkdownExt(s) ==
    IF EndsWith(s, S_md) THEN SubSeq(s, 1, Len(s) - Len(S_md))
    ELSE IF EndsWith(s, S_markdown) THEN SubSeq(s, 1, Len(s) - Len(S_markdown))
    ELSE s

\* String.prototype.split('/').pop()
LastSegment(s) == SubSeq(s, LastIndexOf(s, "/") + 1, Len(s))

----------------------------------------------------------------------------
(* The content tree and findFiles *)

\* a directory entry: a file with its front matter, or a directory with its entries
FileEntry(name, readable, title, tags) ==
    [kind |-> "file", name |-> name, ok |-> readable,
     title |-> title, tags |-> tags, entries |-> <<>>]

DirEntry(name, listable, entries) ==
    [kind |-> "dir", name |-> name, ok |-> listable,
     title |-> <<>>, tags |-> <<>>, entries |-> entries]

\* Descends that ignores the exclude list
Descends_IgnoresExclude(entry, exclude) == ~StartsWith(entry.name, S_dot)

\* `!entry.name.startsWith('.') && !exclude.includes(entry.name)`
Descends(entry, exclude) == ~StartsWith(entry.name, S_dot) /\ entry.name \notin exclude

RECURSIVE findFiles(_, _, _, _, _, _)
\* the files below `dir`, whose listing is `entries`, in listing order
findFiles(sep, entries, dir, baseDir, extensions, exclude) ==
    IF entries = <<>> THEN <<>>
    ELSE LET entry == Head(entries)
             fullPath == join(sep, dir, entry.name)
             here ==
                 IF entry.kind = "dir"
                 THEN IF Descends(entry, exclude)
                      THEN findFiles(sep, entry.entries, fullPath, baseDir, extensions, exclude)
                      ELSE <<>>
                 ELSE IF extname(entry.name) \in extensions
                      THEN LET relativePath == relative(baseDir, fullPath)
                               folder == dirname(sep, relativePath)
                           IN  << [fullPath |-> fullPath,
                                   relativePath |-> relativePath,
                                   folder |-> IF folder = S_dot THEN S_root ELSE folder,
                                   ok |-> entry.ok,
                                   title |-> entry.title,
                                   tags |-> entry.tags] >>
                      ELSE <<>>
         IN  here \o findFiles(sep, Tail(entries), dir, baseDir, extensions, exclude)

RECURSIVE readdirFails(_, _)
\* some directory the scan lists cannot be listed
readdirFails(entries, exclude) ==
    \E k \in 1..Len(entries) :
        LET entry == entries[k]
        IN  /\ entry.kind = "dir"
            /\ Descends(entry, exclude)
            /\ (~entry.ok \/ readdirFails(entry.entries, exclude))

RECURSIVE Readdirs(_, _)
\* the readdir calls findFiles awaits below a listed directory, in order, each
\* with its outcome, a directory that cannot be listed ending its own branch
Readdirs(entries, exclude) ==
    IF entries = <<>> THEN <<>>
    ELSE LET entry == Head(entries)
             here ==
                 IF entry.kind = "dir" /\ Descends(entry, exclude)
                 THEN IF entry.ok
                      THEN <<TRUE>> \o Readdirs(entry.entries, exclude)
                      ELSE <<FALSE>>
                 ELSE <<>>
         IN  here \o Readdirs(Tail(entries), exclude)

----------------------------------------------------------------------------
(* prepareTextForEmbedding *)

\* a string field that was not given (JS undefined)
NoText == <<"undefined">>
\* a `tags` field that was not given
NoTags == << <<"undefined">> >>

\* JS truthiness of an optional string
TruthyText(text) == text # NoText /\ text # <<>>

RECURSIVE JoinTexts(_, _)
\* Array.prototype.join(separator)
JoinTexts(parts, separator) ==
    IF parts = <<>> THEN <<>>
    ELSE IF Len(parts) = 1 THEN parts[1]
    ELSE parts[1] \o separator \o JoinTexts(Tail(parts), separator)

\* `Tags: ${fields.tags.join(', ')}`
TagsLine(tags) == <<"T", "a", "g", "s", ":", " ">> \o JoinTexts(tags, <<",", " ">>)

\* prepareTextForEmbedding that pushes every field, given or not, empty or not
prepareTextForEmbedding_EveryField(fields) ==
    JoinTexts(<< (IF fields.title = NoText THEN <<>> ELSE fields.title),
                 (IF fields.description = NoText THEN <<>> ELSE fields.description),
                 (IF fields.tags = NoTags THEN <<>> ELSE TagsLine(fields.tags)),
                 (IF fields.content = NoText THEN <<>> ELSE fields.content) >>,
              <<"\n", "\n">>)

\* prepareTextForEmbedding(fields)
prepareTextForEmbedding(fields) ==
    LET parts ==
            (IF TruthyText(fields.title) THEN <<fields.title>> ELSE <<>>)
         \o (IF TruthyText(fields.description) THEN <<fields.description>> ELSE <<>>)
         \o (IF fields.tags # NoTags /\ Len(fields.tags) > 0
             THEN <<TagsLine(fields.tags)>> ELSE <<>>)
         \o (IF TruthyText(fields.content) THEN <<fields.content>> ELSE <<>>)
        kept == SelectSeq(parts, LAMBDA part : part # <<>>)
    IN  JoinTexts(kept, <<"\n", "\n">>)

----------------------------------------------------------------------------
(* processFile, insertDocument, createTable *)

\* front-matter tags as the parser returns them
TagsAbsent == [kind |-> "absent", items |-> <<>>]
TagsArray(items) == [kind |-> "array", items |-> items]
TagsScalar(item) == [kind |-> "scalar", items |-> <<item>>]
Str(text) == [type |-> "string", text |-> text]
Num(text) == [type |-> "number", text |-> text]

\* Slug that leaves the separators of the platform in place
Slug_KeepSeparators(relativePath) == StripMarkdownExt(relativePath)

\* slug: the relative path without its markdown extension, separators as "/"
Slug(relativePath) == ReplaceAll(StripMarkdownExt(relativePath), "\\", "/")

\* title: front matter, else the file name with hyphens as spaces, else Untitled
Title(frontMatterTitle, relativePath) ==
    IF frontMatterTitle # <<>> THEN frontMatterTitle
    ELSE LET fromName == ReplaceAll(StripMarkdownExt(LastSegment(relativePath)), "-", " ")
         IN  IF fromName # <<>> THEN fromName ELSE S_Untitled

\* `Array.isArray(frontMatter.tags) ? frontMatter.tags : []`
Tags(frontMatterTags) ==
    IF frontMatterTags.kind = "array" THEN frontMatterTags.items ELSE <<>>

\* the document processFile derives from a discovered file, before its embedding
Document(file) ==
    [slug |-> Slug(file.relativePath),
     title |-> Title(file.title, file.relativePath),
     folder |-> file.folder, tags |-> Tags(file.tags), embedding |-> -1]

\* `String(tag)` of each tag, as Array.prototype.join renders it
TagTexts(tags) == [k \in 1..Len(tags) |-> tags[k].text]

\* the text processFile hands to generateEmbedding; the files of the model
\* have front matter without a description and an empty body
EmbeddingText(document) ==
    prepareTextForEmbedding([title |-> document.title, description |-> NoText,
                             content |-> <<>>, tags |-> TagTexts(document.tags)])

RECURSIVE JSONEscape(_)
\* the characters of a JSON string literal, quote and backslash escaped
JSONEscape(text) ==
    IF text = <<>> THEN <<>>
    ELSE (IF Head(text) \in {"\"", "\\"} THEN <<"\\", Head(text)>> ELSE <<Head(text)>>)
            \o JSONEscape(Tail(text))

RECURSIVE JSONItems(_)
JSONItems(items) ==
    IF items = <<>> THEN <<>>
    ELSE LET item == Head(items)
             one == IF item.type = "string"
                    THEN <<"\"">> \o JSONEscape(item.text) \o <<"\"">>
                    ELSE item.text
         IN  one \o (IF Tail(items) = <<>> THEN <<>> ELSE <<",">> \o JSONItems(Tail(items)))

\* JSON.stringify of an array of tags
JSONStringify(items) == <<"[">> \o JSONItems(items) \o <<"]">>

NoSchema == [exists |-> FALSE, dimensions |-> 0, indexes |-> <<>>]

\* the vector index on embedding and the scalar indexes on folder and slug
TableIndexes == <<"articles_embedding_idx", "articles_folder_idx", "articles_slug_idx">>

\* CREATE TABLE that redeclares the vector column of an existing table
CreateTable_Redeclares(s, dimensions) ==
    IF s.exists THEN [s EXCEPT !.dimensions = dimensions]
    ELSE [exists |-> TRUE, dimensions |-> dimensions, indexes |-> <<>>]

\* CREATE TABLE IF NOT EXISTS articles (..., embedding F32_BLOB(dimensions), ...)
CreateTableIfNotExists(s, dimensions) ==
    IF s.exists THEN s
    ELSE [exists |-> TRUE, dimensions |-> dimensions, indexes |-> <<>>]

\* CREATE INDEX that adds the index whether or not one of that name exists
CreateIndex_Unconditional(s, name) == [s EXCEPT !.indexes = Append(@, name)]

\* CREATE INDEX IF NOT EXISTS name ON articles(...)
CreateIndexIfNotExists(s, name) ==
    IF \E k \in 1..Len(s.indexes) : s.indexes[k] = name
    THEN s
    ELSE [s EXCEPT !.indexes = Append(@, name)]

\* the schema after statement number k of createTable(client, 'articles', dimensions)
Statement(s, k, dimensions) ==
    IF k = 1
    THEN CreateTableIfNotExists(s, IF dimensions = UndefinedNum
                                   THEN DefaultDimensions ELSE dimensions)
    ELSE CreateIndexIfNotExists(s, TableIndexes[k - 1])

\* the schema after the four statements of createTable(client, 'articles', dimensions)
SchemaAfterCreate(s, dimensions) ==
    LET dims == IF dimensions = UndefinedNum THEN DefaultDimensions ELSE dimensions
    IN  CreateIndexIfNotExists(
            CreateIndexIfNotExists(
                CreateIndexIfNotExists(CreateTableIfNotExists(s, dims), TableIndexes[1]),
                TableIndexes[2]),
            TableIndexes[3])

\* InsertRefused for a slug column declared without UNIQUE
InsertRefused_NoUnique(document) == ~schema.exists

\* the INSERT is refused by the statement's own terms: no table, or a slug
\* already present (slug TEXT UNIQUE); the length of the vector is not among
\* them, the statement handing `vector(?)` to the store as it is
InsertRefused(document) ==
    \/ ~schema.exists
    \/ \E row \in table : row.slug = document.slug

----------------------------------------------------------------------------
(* indexContent *)

File_a_md == FileEntry(<<"a", ".", "m", "d">>, TRUE, S_First, TagsArray(<<Str(<<"x">>), Str(<<"y">>)>>))
File_a_markdown == FileEntry(<<"a">> \o S_markdown, TRUE, S_Second, TagsAbsent)
File_b_md == FileEntry(<<"b", ".", "m", "d">>, FALSE, <<>>, TagsAbsent)
File_my_article_md == FileEntry(<<"m", "y", "-", "a", ".", "m", "d">>, TRUE, <<>>, TagsScalar(Str(<<"x">>)))
File_c_txt == FileEntry(<<"c">> \o S_txt, TRUE, <<>>, TagsAbsent)
File_t_md == FileEntry(<<"t", ".", "m", "d">>, TRUE, <<>>, TagsArray(<<Num(<<"1">>), Str(<<"x">>)>>))

\* the content trees runs are pointed at: the listing of ContentPath
TreeEmpty == <<>>
TreeExcludedOnly ==
    << DirEntry(S_node_modules, TRUE, <<File_a_md, DirEntry(<<"s">>, TRUE, <<File_a_md>>)>>),
       DirEntry(S_git, FALSE, <<File_a_md>>), File_c_txt >>
TreeOne == << File_a_md >>
TreeSameSlug == << File_a_md, File_a_markdown >>
TreeMixed ==
    << File_b_md,
       DirEntry(S_nested, TRUE,
          << File_my_article_md, DirEntry(S_dist, TRUE, <<File_a_md>>),
             DirEntry(<<".", "h">>, TRUE, <<File_a_md>>) >>),
       DirEntry(S_node_modules, TRUE, <<File_a_md>>), File_a_markdown >>
TreeUnlistable == << File_a_md, DirEntry(S_nested, FALSE, <<>>) >>
TreeNumericTag == << File_t_md >>

Trees ==
    {TreeEmpty, TreeExcludedOnly, TreeOne, TreeSameSlug, TreeMixed, TreeUnlistable,
     TreeNumericTag}

\* onProgress: not given, a callback that records its calls, one that may throw
ProgressCallbacks == {"none", "records", "throws"}

\* the embeddingOptions runs pass
IndexEmbeddingOptions ==
    { [NoOptions EXCEPT !.provider = "local", !.dimensions = 768],
      [NoOptions EXCEPT !.dimensions = 384],
      [NoOptions EXCEPT !.provider = "gemini"] }

NoDocument ==
    [slug |-> <<>>, title |-> <<>>, folder |-> <<>>, tags |-> <<>>, embedding |-> -1]

NoResult == [success |-> -1, failed |-> -1, total |-> -1]

\* a run's frame: its options, the readdir calls findFiles has settled, the
\* locals of indexContent, the document being processed, how the promise settled, and the operations it awaited so far
IdleRun ==
    [pc |-> "idle", id |-> 0,
     tree |-> <<>>, onProgress |-> "none", embeddingOptions |-> NoOptions,
     listed |-> 0, files |-> <<>>, i |-> 0, success |-> 0, failed |-> 0,
     document |-> NoDocument, result |-> NoResult, error |-> "", trace |-> <<>>]

Event(ev, frame, ok) ==
    [ev |-> ev, i |-> frame.i + 1, n |-> Len(frame.files),
     path |-> frame.files[frame.i + 1].relativePath, ok |-> ok]

\* LoopHead without the onProgress call
LoopHead_NoCallback(frame) ==
    IF frame.i = Len(frame.files)
    THEN { [frame EXCEPT !.pc = "done",
                         !.result = [success |-> frame.success, failed |-> frame.failed,
                                     total |-> Len(frame.files)]] }
    ELSE { [frame EXCEPT !.pc = "reading"] }

\* LoopHead with the onProgress call wrapped in a handler that ignores its error
LoopHead_SwallowsThrow(frame) ==
    IF frame.i = Len(frame.files)
    THEN { [frame EXCEPT !.pc = "done",
                         !.result = [success |-> frame.success, failed |-> frame.failed,
                                     total |-> Len(frame.files)]] }
    ELSE IF frame.onProgress = "none"
    THEN { [frame EXCEPT !.pc = "reading"] }
    ELSE { [frame EXCEPT !.pc = "reading",
                         !.trace = Append(frame.trace, Event("progress", frame, ok))] :
            ok \in (IF frame.onProgress = "throws" THEN BOOLEAN ELSE {TRUE}) }

\* the loop from its head to the next await: return the summary after the last
\* file, else call onProgress and start reading the file
LoopHead(frame) ==
    IF frame.i = Len(frame.files)
    THEN { [frame EXCEPT !.pc = "done",
                         !.result = [success |-> frame.success, failed |-> frame.failed,
                                     total |-> Len(frame.files)]] }
    ELSE IF frame.onProgress = "none"
    THEN { [frame EXCEPT !.pc = "reading"] }
    ELSE { [frame EXCEPT !.pc = "reading",
                         !.trace = Append(frame.trace, Event("progress", frame, TRUE))] }
         \cup (IF frame.onProgress = "throws"
               THEN { [frame EXCEPT !.pc = "rejected", !.error = "onProgress",
                          !.trace = Append(frame.trace, Event("progress", frame, FALSE))] }
               ELSE {})

\* Failed without the catch block: the error leaves indexContent
Failed_Rethrows(frame, ev) ==
    { [frame EXCEPT !.pc = "rejected", !.error = ev,
                    !.trace = Append(frame.trace, Event(ev, frame, FALSE))] }

\* the catch block: `failed++`, then the next iteration
Failed(frame, ev) ==
    LoopHead([frame EXCEPT !.failed = frame.failed + 1, !.i = frame.i + 1,
                           !.document = NoDocument,
                           !.trace = Append(frame.trace, Event(ev, frame, FALSE))])

\* Succeeded without `success++`
Succeeded_Uncounted(frame) ==
    LoopHead([frame EXCEPT !.i = frame.i + 1, !.document = NoDocument,
                           !.trace = Append(frame.trace, Event("insert", frame, TRUE))])

\* `success++`, then the next iteration
Succeeded(frame) ==
    LoopHead([frame EXCEPT !.success = frame.success + 1, !.i = frame.i + 1,
                           !.document = NoDocument,
                           !.trace = Append(frame.trace, Event("insert", frame, TRUE))])

\* AwaitInsert that issues no awaited INSERT and goes on to the next file
AwaitInsert_NotAwaited(frame, len) ==
    LoopHead([frame EXCEPT !.i = frame.i + 1, !.document = NoDocument,
                           !.trace = Append(frame.trace, Event("embed", frame, TRUE))])

\* `await insertDocument(client, document, tableName)`: the loop stops at the
\* INSERT of the document processFile returned
AwaitInsert(frame, len) ==
    { [frame EXCEPT !.pc = "inserting", !.document.embedding = len,
                    !.trace = Append(frame.trace, Event("embed", frame, TRUE))] }

\* the table when the DELETE is left out
ClearedTable_Kept == table

\* `DELETE FROM articles`
ClearedTable == {}

\* the row an INSERT adds
InsertedRow(frame) ==
    [id |-> nextId, slug |-> frame.document.slug, title |-> frame.document.title,
     folder |-> frame.document.folder, tags |-> JSONStringify(frame.document.tags),
     embedding |-> frame.document.embedding, run |-> frame.id, file |-> frame.i + 1]

\* the dimensions createTable is called with: left out, or given
CreateDimensions == {UndefinedNum, 384, DefaultDimensions}

\* createTable is not awaiting a statement
DdlFree == ddl.pc # "pending"

\* a caller invokes createTable, which awaits its first statement
CreateTable(r) ==
    /\ runs[r].pc \in {"idle", "done", "rejected"}
    /\ DdlFree
    /\ ddl.calls < MaxCreates
    /\ \E dimensions \in CreateDimensions :
          ddl' = [pc |-> "pending", settled |-> 0, calls |-> ddl.calls + 1,
                  dimensions |-> dimensions, rows |-> Cardinality(table), error |-> ""]
    /\ UNCHANGED <<pathSep, schema, table, nextId, runs, started, padVars, embVars, readVars, textVars>>

\* the statement createTable awaits settles: createTable rejects with the
\* store's error, or the statement takes effect and the next one is awaited,
\* createTable returning after the fourth
StatementSettles ==
    /\ ddl.pc = "pending"
    /\ \E storeOk \in BOOLEAN :
          IF storeOk
          THEN /\ schema' = Statement(schema, ddl.settled + 1, ddl.dimensions)
               /\ ddl' = [ddl EXCEPT !.settled = ddl.settled + 1,
                                     !.pc = IF ddl.settled + 1 = 4 THEN "resolved" ELSE "pending"]
          ELSE /\ ddl' = [ddl EXCEPT !.pc = "rejected", !.error = "store unavailable"]
               /\ UNCHANGED schema
    /\ UNCHANGED <<pathSep, table, nextId, runs, started, padVars, embVars, readVars, textVars>>

\* a caller invokes indexContent with options drawn from the given sets; the
\* call awaits the readdir of contentPath
IndexContentWith(r, trees, callbacks, options) ==
    /\ runs[r].pc \in {"idle", "done", "rejected"}
    /\ DdlFree
    /\ started < MaxRuns
    /\ started' = started + 1
    /\ \E tree \in trees, onProgress \in callbacks, embeddingOptions \in options :
          runs' = [runs EXCEPT ![r] =
                     [IdleRun EXCEPT !.pc = "scanning", !.id = started + 1, !.tree = tree,
                                     !.onProgress = onProgress,
                                     !.embeddingOptions = embeddingOptions]]
    /\ UNCHANGED <<pathSep, ddl, schema, table, nextId, padVars, embVars, readVars, textVars>>

\* a caller invokes indexContent
IndexContent(r) == IndexContentWith(r, Trees, ProgressCallbacks, IndexEmbeddingOptions)

\* the frame after the readdir findFiles awaits has settled: findFiles rejects,
\* awaits the readdir of the next directory, or returns, and then indexContent
\* returns zeros or issues the DELETE
AfterReaddir(frame) ==
    LET order == <<TRUE>> \o Readdirs(frame.tree, DefaultExclude)
        k == frame.listed + 1
        files == findFiles(pathSep, frame.tree, ContentPath, ContentPath,
                           DefaultFileExtensions, DefaultExclude)
    IN  IF ~order[k]
        THEN [frame EXCEPT !.listed = k, !.pc = "rejected", !.error = "readdir"]
        ELSE IF k < Len(order)
        THEN [frame EXCEPT !.listed = k]
        ELSE IF Len(files) = 0
        THEN [frame EXCEPT !.listed = k, !.pc = "done",
                           !.result = [success |-> 0, failed |-> 0, total |-> 0]]
        ELSE [frame EXCEPT !.listed = k, !.pc = "clearing", !.files = files]

\* ScanSettles with the DELETE issued before the empty check
ScanSettles_ClearsFirst(r) ==
    /\ runs[r].pc = "scanning"
    /\ runs' = [runs EXCEPT ![r] = AfterReaddir(runs[r])]
    /\ table' = IF AfterReaddir(runs[r]).pc = "done" THEN ClearedTable ELSE table
    /\ UNCHANGED <<pathSep, ddl, schema, nextId, started, padVars, embVars, readVars, textVars>>

\* ScanSettles with the DELETE issued before findFiles is awaited
ScanSettles_ClearsBeforeScan(r) ==
    /\ runs[r].pc = "scanning"
    /\ runs' = [runs EXCEPT ![r] = AfterReaddir(runs[r])]
    /\ table' = ClearedTable
    /\ UNCHANGED <<pathSep, ddl, schema, nextId, started, padVars, embVars, readVars, textVars>>

\* a readdir of findFiles settles
ScanSettles(r) ==
    /\ runs[r].pc = "scanning"
    /\ runs' = [runs EXCEPT ![r] = AfterReaddir(runs[r])]
    /\ UNCHANGED <<pathSep, ddl, schema, table, nextId, started, padVars, embVars, readVars, textVars>>

\* the DELETE settles: reject, or an empty table and the first iteration
ClearSettles(r) ==
    /\ runs[r].pc = "clearing"
    /\ \E storeOk \in BOOLEAN :
          IF storeOk /\ schema.exists
          THEN /\ table' = ClearedTable
               /\ \E next \in LoopHead(runs[r]) : runs' = [runs EXCEPT ![r] = next]
          ELSE /\ runs' = [runs EXCEPT ![r].pc = "rejected", ![r].error = "DELETE"]
               /\ UNCHANGED table
    /\ UNCHANGED <<pathSep, ddl, schema, nextId, started, padVars, embVars, readVars, textVars>>

\* the run's frame once its generateEmbedding call has moved on: the call
\* rejected (the file is counted as failed), resolved (the INSERT is issued), or
\* awaits its next step
AfterEmbedding(frame, call) ==
    CASE call.pc = "rejected" -> Failed(frame, "embed")
      [] call.pc = "resolved" -> AwaitInsert(frame, call.len)
      [] OTHER -> {frame}

\* readFile settles and the front matter is parsed; generateEmbedding is called
\* and runs to its first await
ReadSettles(r) ==
    /\ runs[r].pc = "reading"
    /\ LET frame == runs[r]
           file == frame.files[frame.i + 1]
           document == Document(file)
           read == [frame EXCEPT !.pc = "embedding", !.document = document,
                                 !.trace = Append(frame.trace, Event("read", frame, TRUE))]
       IN  IF file.ok
           THEN /\ Invoke(r, EmbeddingText(document), frame.embeddingOptions)
                /\ \E next \in AfterEmbedding(read, calls'[r]) :
                      runs' = [runs EXCEPT ![r] = next]
           ELSE /\ \E next \in Failed(frame, "read") : runs' = [runs EXCEPT ![r] = next]
                /\ UNCHANGED embVars
    /\ UNCHANGED <<pathSep, ddl, schema, table, nextId, started, padVars, readVars, textVars>>

\* the await pending inside the run's generateEmbedding call settles
EmbeddingSettles(r) ==
    /\ runs[r].pc = "embedding"
    /\ AwaitSettled(r)
    /\ \E next \in AfterEmbedding(runs[r], calls'[r]) : runs' = [runs EXCEPT ![r] = next]
    /\ UNCHANGED <<env, issued, pathSep, ddl, schema, table, nextId, started, padVars, readVars, textVars>>

\* the INSERT settles: the row is stored, or the store fails or refuses the
\* statement and the catch block counts the file as failed
InsertSettles(r) ==
    /\ runs[r].pc = "inserting"
    /\ LET frame == runs[r]
       IN  \E storeOk \in BOOLEAN :
              IF storeOk /\ ~InsertRefused(frame.document)
              THEN /\ table' = table \cup {InsertedRow(frame)}
                   /\ nextId' = nextId + 1
                   /\ \E next \in Succeeded(frame) : runs' = [runs EXCEPT ![r] = next]
              ELSE /\ \E next \in Failed(frame, "insert") : runs' = [runs EXCEPT ![r] = next]
                   /\ UNCHANGED <<table, nextId>>
    /\ UNCHANGED <<pathSep, ddl, schema, started, padVars, embVars, readVars, textVars>>

\* no createTable call yet; else the number of calls, and of the last one how
\* far it is, the statements that took effect, its `dimensions`, the rows in
\* the table when it was made, and its error
NoDdl ==
    [pc |-> "idle", settled |-> 0, calls |-> 0, dimensions |-> UndefinedNum,
     rows |-> 0, error |-> ""]

IndexIdle ==
    /\ schema = NoSchema
    /\ ddl = NoDdl
    /\ table = {}
    /\ nextId = 1
    /\ runs = [r \in Runners |-> IdleRun]
    /\ started = 0

\* no run started; the table was created with the default dimensions
\* beforehand, or was never created
IndexInit ==
    /\ schema \in {NoSchema, SchemaAfterCreate(NoSchema, UndefinedNum)}
    /\ ddl = NoDdl
    /\ table = {}
    /\ nextId = 1
    /\ runs = [r \in Runners |-> IdleRun]
    /\ started = 0
    /\ pathSep \in {"/", "\\"}

\* one caller: indexContent calls, each awaited before the next
IndexNext ==
    \/ IndexContent("a")
    \/ ScanSettles("a")
    \/ ClearSettles("a")
    \/ ReadSettles("a")
    \/ EmbeddingSettles("a")
    \/ InsertSettles("a")

\* one caller: createTable calls, statement by statement, and indexContent
\* runs over a one-file tree, each call awaited before the next
CreateNext ==
    \/ CreateTable("a")
    \/ StatementSettles
    \/ IndexContentWith("a", {TreeOne}, {"none"},
                        {[NoOptions EXCEPT !.provider = "local", !.dimensions = 768],
                         [NoOptions EXCEPT !.dimensions = 384]})
    \/ ScanSettles("a")
    \/ ClearSettles("a")
    \/ ReadSettles("a")
    \/ EmbeddingSettles("a")
    \/ InsertSettles("a")

\* the trees two overlapping runs are pointed at: two readable files with
\* different slugs, two with the same slug, and a tree with an unreadable file
TreeTwo == << File_a_md, File_t_md >>
TreeUnreadable == << File_b_md, File_a_md >>
ConcurrentTrees == {TreeTwo, TreeSameSlug, TreeUnreadable}

\* the table created with the default dimensions, no run started
ConcurrentInit ==
    /\ schema = SchemaAfterCreate(NoSchema, UndefinedNum)
    /\ ddl = [pc |-> "resolved", settled |-> 4, calls |-> 1,
              dimensions |-> UndefinedNum, rows |-> 0, error |-> ""]
    /\ table = {}
    /\ nextId = 1
    /\ runs = [r \in Runners |-> IdleRun]
    /\ started = 0
    /\ pathSep = "/"

\* two callers: indexContent calls that are not awaited before the other
\* caller's, their continuations interleaving at the awaits
ConcurrentNext ==
    \E r \in Runners :
        \/ IndexContentWith(r, ConcurrentTrees, {"none"},
                            {[NoOptions EXCEPT !.provider = "local", !.dimensions = 768]})
        \/ ScanSettles(r)
        \/ ClearSettles(r)
        \/ ReadSettles(r)
        \/ EmbeddingSettles(r)
        \/ InsertSettles(r)

----------------------------------------------------------------------------
(* The store's side of the read statements: collation, ORDER BY, LIMIT,      *)
(* vector_distance_cos                                                       *)

\* the printable ASCII characters of codes 32..95 and 97..126, in code order
AsciiLow ==
    << " ", "!", "\"", "#", "$", "%", "&", "'", "(", ")", "*", "+", ",", "-", ".", "/",
       "0", "1", "2", "3", "4", "5", "6", "7", "8", "9", ":", ";", "<", "=", ">", "?",
       "@", "A", "B", "C", "D", "E", "F", "G", "H", "I", "J", "K", "L", "M", "N", "O",
       "P", "Q", "R", "S", "T", "U", "V", "W", "X", "Y", "Z", "[", "\\", "]", "^", "_" >>
AsciiHigh ==
    << "a", "b", "c", "d", "e", "f", "g", "h", "i", "j", "k", "l", "m", "n", "o",
       "p", "q", "r", "s", "t", "u", "v", "w", "x", "y", "z", "{", "|", "}", "~" >>

\* the byte a character is stored as
CharCode(ch) ==
    IF \E k \in 1..Len(AsciiLow) : AsciiLow[k] = ch
    THEN 31 + (CHOOSE k \in 1..Len(AsciiLow) : AsciiLow[k] = ch)
    ELSE 96 + (CHOOSE k \in 1..Len(AsciiHigh) : AsciiHigh[k] = ch)

RECURSIVE TextLess(_, _)
\* s sorts strictly before t under the BINARY collation of a TEXT column
TextLess(s, t) ==
    IF t = <<>> THEN FALSE
    ELSE IF s = <<>> THEN TRUE
    ELSE IF Head(s) = Head(t) THEN TextLess(Tail(s), Tail(t))
    ELSE CharCode(Head(s)) < CharCode(Head(t))

\* every order in which a statement can return the rows of `rows`
Orderings(rows) ==
    LET n == Cardinality(rows)
    IN  {s \in [1..n -> rows] : \A j, k \in 1..n : j # k => s[j] # s[k]}

\* OrderByTitle without the ORDER BY clause
OrderByTitle_Unordered(rows) == Orderings(rows)

\* ORDER BY title: the orders in which no row precedes one of smaller title
OrderByTitle(rows) ==
    {s \in Orderings(rows) :
        \A j, k \in 1..Len(s) : j < k => ~TextLess(s[k].title, s[j].title)}

\* SELECT DISTINCT folder ... ORDER BY folder
DistinctFolders(rows) ==
    LET folders == {row.folder : row \in rows}
    IN  {s \in Orderings(folders) :
            \A j, k \in 1..Len(s) : j < k => ~TextLess(s[k], s[j])}

\* the inner product of two vectors of one length
RECURSIVE Dot(_, _)
Dot(v, w) == IF v = <<>> THEN 0 ELSE Head(v) * Head(w) + Dot(Tail(v), Tail(w))

\* vector_distance_cos(v, q) = 1 - cos(v, q), kept exact as the pair
\* [dot, norm]: cos = dot / sqrt(norm), norm = |v|^2 |q|^2 > 0
Distance(v, q) == [dot |-> Dot(v, q), norm |-> Dot(v, v) * Dot(q, q)]

\* the distance d is at most the distance e: cos(d) >= cos(e)
DistanceLeq(d, e) ==
    IF d.dot >= 0
    THEN e.dot < 0 \/ d.dot * d.dot * e.norm >= e.dot * e.dot * d.norm
    ELSE e.dot < 0 /\ d.dot * d.dot * e.norm <= e.dot * e.dot * d.norm

\* OrderByDistance without the ORDER BY clause
OrderByDistance_Unordered(rows, q) == Orderings(rows)

\* ORDER BY distance: the orders in which no row precedes one of smaller distance
OrderByDistance(rows, q) ==
    {s \in Orderings(rows) :
        \A j, k \in 1..Len(s) :
            j < k => DistanceLeq(Distance(s[j].vector, q), Distance(s[k].vector, q))}

\* LIMIT n
Limit(s, n) == SubSeq(s, 1, Min(n, Len(s)))

----------------------------------------------------------------------------
(* JSON.parse of the tags column *)

RECURSIVE StringEnd(_, _)
\* the position of the quote closing the string literal whose body starts at pos
StringEnd(text, pos) ==
    IF text[pos] = "\"" THEN pos
    ELSE IF text[pos] = "\\" THEN StringEnd(text, pos + 2)
    ELSE StringEnd(text, pos + 1)

RECURSIVE JSONUnescape(_)
\* JSONUnescape that keeps the escape characters
JSONUnescape_Raw(body) == body

\* the characters a string literal's body stands for
JSONUnescape(body) ==
    IF body = <<>> THEN <<>>
    ELSE IF Head(body) = "\\"
         THEN <<body[2]>> \o JSONUnescape(SubSeq(body, 3, Len(body)))
         ELSE <<Head(body)>> \o JSONUnescape(Tail(body))

RECURSIVE TokenEnd(_, _)
\* the last position of the bare token (a number) that starts at pos
TokenEnd(text, pos) ==
    IF text[pos + 1] \in {",", "]"} THEN pos ELSE TokenEnd(text, pos + 1)

RECURSIVE JSONElements(_, _)
\* the elements of an array literal from pos to its closing bracket
JSONElements(text, pos) ==
    IF text[pos] = "]" THEN <<>>
    ELSE IF text[pos] = "," THEN JSONElements(text, pos + 1)
    ELSE IF text[pos] = "\""
         THEN LET end == StringEnd(text, pos + 1)
              IN  <<Str(JSONUnescape(SubSeq(text, pos + 1, end - 1)))>>
                      \o JSONElements(text, end + 1)
         ELSE LET end == TokenEnd(text, pos)
              IN  <<Num(SubSeq(text, pos, end))>> \o JSONElements(text, end + 1)

\* JSON.parse of an array literal
JSONParse(text) == JSONElements(text, 2)

\* a NULL in a TEXT column
SqlNull == <<"NULL">>
\* a NULL in the embedding column
NullVector == <<>>

\* `JSON.parse(row.tags as string || '[]')`
ParseTags(tags) ==
    IF tags = SqlNull \/ tags = <<>> THEN JSONParse(<<"[", "]">>) ELSE JSONParse(tags)

----------------------------------------------------------------------------
(* search.ts: the table the read operations run against *)

\* largest number of rows in the table the read operations run against
MaxRows == 3
\* the `dimensions` the table of the read operations was created with
ReadDimensions == 2
\* `limit = 10`
DefaultLimit == 10

S_docs == <<"d", "o", "c", "s">>
S_apple == <<"a", "p", "p", "l", "e">>
S_Zed == <<"Z", "e", "d">>

\* the row insertDocument writes for a document whose embedding is `vector`;
\* `source` remembers the front-matter tags it was indexed from
StoredRow(id, file, vector) ==
    LET document == Document(file)
    IN  [id |-> id, slug |-> document.slug, title |-> document.title,
         folder |-> document.folder, tags |-> JSONStringify(document.tags),
         embedding |-> Len(vector), vector |-> vector, source |-> file.tags]

\* a row another writer put into the table with its own INSERT
TagsForeign == [kind |-> "foreign", items |-> <<>>]
ForeignRow(id, slug, title, folder, tags, vector) ==
    [id |-> id, slug |-> slug, title |-> title, folder |-> folder, tags |-> tags,
     embedding |-> IF vector = NullVector THEN -1 ELSE Len(vector),
     vector |-> vector, source |-> TagsForeign]

\* the content tree the indexed rows come from
ReadTree ==
    << FileEntry(<<"a", ".", "m", "d">>, TRUE, S_First, TagsArray(<<Str(<<"x">>), Str(<<"y">>)>>)),
       DirEntry(S_nested, TRUE,
          << FileEntry(<<"b", ".", "m", "d">>, TRUE, <<>>,
                       TagsArray(<<Str(<<"a", "\"", "b">>), Str(<<"c", ",", "\\", "d">>)>>)),
             FileEntry(<<"c", ".", "m", "d">>, TRUE, S_First, TagsAbsent) >>),
       DirEntry(S_docs, TRUE,
          << FileEntry(<<"d", ".", "m", "d">>, TRUE, S_Zed, TagsArray(<<>>)) >>) >>

ReadFiles ==
    findFiles("/", ReadTree, ContentPath, ContentPath, DefaultFileExtensions, DefaultExclude)

\* the embeddings of the four files: two of one direction, none the zero vector
ReadVectors == << <<1, 0>>, <<1, 1>>, <<2, 0>>, <<0, 1>> >>

\* the rows a table can hold: the four indexed files, a row without tags and
\* embedding, and a row whose tags column is the empty string
RowPool ==
    {StoredRow(k, ReadFiles[k], ReadVectors[k]) : k \in 1..Len(ReadFiles)}
    \cup {ForeignRow(5, <<"e">>, S_apple, S_docs, SqlNull, NullVector),
          ForeignRow(6, <<"f">>, S_Second, S_root, <<>>, <<-1, 1>>)}

ReadTables == {rows \in SUBSET RowPool : Cardinality(rows) <= MaxRows}

----------------------------------------------------------------------------
(* search.ts: search, getAllArticles, getArticleBySlug, getArticlesByFolder,  *)
(* getFolders                                                                *)

\* `limit` as callers pass it: not given, or a row count
LimitChoices == {UndefinedNum, 0, 1, 2}
\* the vectors the query's generateEmbedding call can resolve with: of the
\* table's dimensions, or of another length
QueryVectors == { <<1, 0>>, <<0, 1>>, <<1, 0, 0>> }
\* the embeddingOptions search is given: the local model, with the table's
\* dimensions or one more
SearchEmbeddingOptions ==
    { [NoOptions EXCEPT !.provider = "local", !.dimensions = d] :
        d \in {ReadDimensions, ReadDimensions + 1} }
\* the slugs and folders callers ask for
SlugChoices == {<<"a">>, <<"n", "e", "s", "t", "e", "d", "/", "b">>, <<"e">>, <<"z">>}
FolderChoices == {S_root, S_nested, S_docs, <<"z">>}

\* the frame of a read operation: its arguments, the query embedding, and how
\* its promise settled (`null`: it resolved with null)
IdleRead ==
    [pc |-> "idle", op |-> "", limit |-> UndefinedNum, slug |-> <<>>, folder |-> <<>>,
     query |-> <<>>, returned |-> <<>>, null |-> FALSE, error |-> ""]

ReadIdle == reader = IdleRead

\* the object search builds from a row
SearchResult(row, query) ==
    [id |-> row.id, slug |-> row.slug, title |-> row.title, folder |-> row.folder,
     tags |-> ParseTags(row.tags), distance |-> Distance(row.vector, query)]

\* the object the listing operations build from a row
Article(row) ==
    [id |-> row.id, slug |-> row.slug, title |-> row.title, folder |-> row.folder,
     tags |-> ParseTags(row.tags)]

\* `results.rows.map(row => ...)`
SearchResults(rows, query) == [k \in 1..Len(rows) |-> SearchResult(rows[k], query)]
Articles(rows) == [k \in 1..Len(rows) |-> Article(rows[k])]

\* a read operation may be called when the previous one has settled
ReaderFree == reader.pc \in {"idle", "resolved", "rejected"}

ReadResolves(frame, returned, null) ==
    reader' = [frame EXCEPT !.pc = "resolved", !.returned = returned, !.null = null]

ReadRejects(frame, message) ==
    reader' = [frame EXCEPT !.pc = "rejected", !.error = message]

ReadUnchanged == UNCHANGED <<padVars, embVars, idxVars, textVars>>

\* the search frame once its generateEmbedding call has moved on: the call
\* rejected (search rejects with its error), resolved with a vector of the
\* length it computed (the SELECT is issued), or awaits its next step
AfterQueryEmbedding(frame, call) ==
    CASE call.pc = "rejected" -> { [frame EXCEPT !.pc = "rejected", !.error = call.error] }
      [] call.pc = "resolved" ->
            { [frame EXCEPT !.pc = "querying", !.query = query] :
                query \in {q \in QueryVectors : Len(q) = call.len} }
      [] OTHER -> {frame}

\* search(options): generateEmbedding(query, embeddingOptions) is called and
\* runs to its first await
search ==
    /\ ReaderFree
    /\ issued < MaxCalls
    /\ \E limit \in LimitChoices, text \in Texts, options \in SearchEmbeddingOptions :
          /\ Invoke("search", text, options)
          /\ \E next \in AfterQueryEmbedding(
                            [IdleRead EXCEPT !.pc = "embedding", !.op = "search",
                                !.limit = IF limit = UndefinedNum THEN DefaultLimit ELSE limit],
                            calls'["search"]) :
                reader' = next
    /\ UNCHANGED <<padVars, idxVars, textVars>>

\* the await pending inside the query's generateEmbedding call settles
SearchEmbeddingSettles ==
    /\ reader.pc = "embedding"
    /\ AwaitSettled("search")
    /\ \E next \in AfterQueryEmbedding(reader, calls'["search"]) : reader' = next
    /\ UNCHANGED <<env, issued, padVars, idxVars, textVars>>

\* the SELECT of search settles
SearchSettles ==
    /\ reader.pc = "querying" /\ reader.op = "search"
    /\ LET candidates == {row \in table : row.embedding # -1}
       IN  \E storeOk \in BOOLEAN :
              IF ~storeOk \/ ~schema.exists
                 \/ (/\ reader.limit # 0
                     /\ \E row \in candidates : Len(row.vector) # Len(reader.query))
              THEN ReadRejects(reader, "SELECT")
              ELSE \E rows \in OrderByDistance(candidates, reader.query) :
                      ReadResolves(reader,
                                   SearchResults(Limit(rows, reader.limit), reader.query),
                                   FALSE)
    /\ ReadUnchanged

\* getAllArticles(client) up to its SELECT
getAllArticles ==
    /\ ReaderFree
    /\ reader' = [IdleRead EXCEPT !.pc = "querying", !.op = "getAllArticles"]
    /\ ReadUnchanged

GetAllArticlesSettles ==
    /\ reader.pc = "querying" /\ reader.op = "getAllArticles"
    /\ \E storeOk \in BOOLEAN :
          IF ~storeOk \/ ~schema.exists
          THEN ReadRejects(reader, "SELECT")
          ELSE \E rows \in OrderByTitle(table) : ReadResolves(reader, Articles(rows), FALSE)
    /\ ReadUnchanged

\* FirstOrNull without the check for an empty result
FirstOrNull_NoCheck(rows) == [returned |-> Articles(rows), null |-> FALSE]

\* `if (results.rows.length === 0) return null`, else the object of rows[0]
FirstOrNull(rows) ==
    IF Len(rows) = 0
    THEN [returned |-> <<>>, null |-> TRUE]
    ELSE [returned |-> <<Article(rows[1])>>, null |-> FALSE]

\* getArticleBySlug(client, slug) up to its SELECT
getArticleBySlug ==
    /\ ReaderFree
    /\ \E slug \in SlugChoices :
          reader' = [IdleRead EXCEPT !.pc = "querying", !.op = "getArticleBySlug",
                                     !.slug = slug]
    /\ ReadUnchanged

\* the SELECT ... WHERE slug = ? LIMIT 1 settles: null, or the row's object
GetArticleBySlugSettles ==
    /\ reader.pc = "querying" /\ reader.op = "getArticleBySlug"
    /\ LET matching == {row \in table : row.slug = reader.slug}
       IN  \E storeOk \in BOOLEAN :
              IF ~storeOk \/ ~schema.exists
              THEN ReadRejects(reader, "SELECT")
              ELSE \E rows \in Orderings(matching) :
                      LET result == FirstOrNull(Limit(rows, 1))
                      IN  ReadResolves(reader, result.returned, result.null)
    /\ ReadUnchanged

\* getArticlesByFolder(client, folder) up to its SELECT
getArticlesByFolder ==
    /\ ReaderFree
    /\ \E folder \in FolderChoices :
          reader' = [IdleRead EXCEPT !.pc = "querying", !.op = "getArticlesByFolder",
                                     !.folder = folder]
    /\ ReadUnchanged

GetArticlesByFolderSettles ==
    /\ reader.pc = "querying" /\ reader.op = "getArticlesByFolder"
    /\ LET matching == {row \in table : row.folder = reader.folder}
       IN  \E storeOk \in BOOLEAN :
              IF ~storeOk \/ ~schema.exists
              THEN ReadRejects(reader, "SELECT")
              ELSE \E rows \in OrderByTitle(matching) :
                      ReadResolves(reader, Articles(rows), FALSE)
    /\ ReadUnchanged

\* getFolders(client) up to its SELECT
getFolders ==
    /\ ReaderFree
    /\ reader' = [IdleRead EXCEPT !.pc = "querying", !.op = "getFolders"]
    /\ ReadUnchanged

GetFoldersSettles ==
    /\ reader.pc = "querying" /\ reader.op = "getFolders"
    /\ \E storeOk \in BOOLEAN :
          IF ~storeOk \/ ~schema.exists
          THEN ReadRejects(reader, "SELECT")
          ELSE \E folders \in DistinctFolders(table) : ReadResolves(reader, folders, FALSE)
    /\ ReadUnchanged

\* the table the reads run against: none, or one with up to MaxRows rows
ReadInit ==
    /\ ReadIdle
    /\ \/ schema = NoSchema /\ table = {}
       \/ /\ schema = SchemaAfterCreate(NoSchema, ReadDimensions)
          /\ table \in ReadTables
    /\ nextId = 7
    /\ runs = [r \in Runners |-> IdleRun]
    /\ started = 0
    /\ ddl = NoDdl
    /\ pathSep = "/"

ReadNext ==
    \/ search
    \/ SearchEmbeddingSettles
    \/ SearchSettles
    \/ getAllArticles
    \/ GetAllArticlesSettles
    \/ getArticleBySlug
    \/ GetArticleBySlugSettles
    \/ getArticlesByFolder
    \/ GetArticlesByFolderSettles
    \/ getFolders
    \/ GetFoldersSettles

----------------------------------------------------------------------------
(* prepareTextForEmbedding on its own *)

\* largest number of tags in the fields handed to prepareTextForEmbedding
MaxTags == 2

\* the fields callers pass: each string absent, empty or given, and up to
\* MaxTags tags
TextChoices(text) == {NoText, <<>>, text}
TagChoices == {NoTags} \cup UNION {[1..n -> {<<"a">>, <<"b">>}] : n \in 0..MaxTags}
TextFields ==
    [title : TextChoices(<<"T">>), description : TextChoices(<<"D">>),
     content : TextChoices(<<"C", "c">>), tags : TagChoices]

TextInit ==
    /\ textPc = "in"
    /\ textFields \in TextFields
    /\ textOut = <<>>

\* prepareTextForEmbedding is not running
TextIdle == textPc = "off" /\ textFields = <<>> /\ textOut = <<>>

ApplyPrepareText ==
    /\ textPc = "in"
    /\ textOut' = prepareTextForEmbedding(textFields)
    /\ textPc' = "out"
    /\ UNCHANGED <<textFields, padVars, embVars, idxVars, readVars>>

----------------------------------------------------------------------------
(* Specifications *)

NoEnv == [GEMINI_API_KEY |-> Undefined, OPENAI_API_KEY |-> Undefined]

\* padEmbedding on its own: nothing else runs
InitPad == PadInit /\ EmbedIdle /\ env = NoEnv /\ IndexIdle /\ pathSep = "/" /\ ReadIdle /\ TextIdle

SpecPad == InitPad /\ [][ApplyPad]_vars

\* generateEmbedding calls on their own
InitEmbed == EmbedInit /\ PadIdle /\ IndexIdle /\ pathSep = "/" /\ ReadIdle /\ TextIdle

SpecEmbed == InitEmbed /\ [][EmbedNext]_vars

\* the indexer, with no API key in the environment
Init == IndexInit /\ PadIdle /\ EmbedIdle /\ env = NoEnv /\ ReadIdle /\ TextIdle

Spec == Init /\ [][IndexNext]_vars

\* the read operations of one caller against a table that does not change
InitRead == ReadInit /\ PadIdle /\ EmbedIdle /\ env = NoEnv /\ TextIdle

SpecRead == InitRead /\ [][ReadNext]_vars

\* createTable calls and indexContent runs of one caller
InitCreate == IndexIdle /\ pathSep = "/" /\ PadIdle /\ EmbedIdle /\ env = NoEnv /\ ReadIdle /\ TextIdle

SpecCreate == InitCreate /\ [][CreateNext]_vars

\* two indexContent runs overlapping on one table
InitConcurrent == ConcurrentInit /\ PadIdle /\ EmbedIdle /\ env = NoEnv /\ ReadIdle /\ TextIdle

SpecConcurrent == InitConcurrent /\ [][ConcurrentNext]_vars

\* prepareTextForEmbedding on its own
InitText == TextInit /\ PadIdle /\ EmbedIdle /\ env = NoEnv /\ IndexIdle /\ pathSep = "/" /\ ReadIdle

SpecText == InitText /\ [][ApplyPrepareText]_vars

----------------------------------------------------------------------------
(* Claims about padEmbedding (SpecPad) *)

\* C10: padEmbedding(v, n) has exactly n elements: v itself when Len(v) = n,
\* the first n elements of v when v is longer, v followed by n - Len(v)
\* zeros when v is shorter.
C10_PadEmbeddingLengthAndContent ==
    padPc = "out" =>
        /\ Len(padOut) = padN
        /\ \A k \in 1..padN : padOut[k] = (IF k <= Len(padV) THEN padV[k] ELSE 0)
        /\ Len(padV) = padN => padOut = padV

\* a shorter vector with non-zero elements was padded with two zeros
C10_Witness ==
    /\ padPc = "out"
    /\ padV = <<1, 2>>
    /\ padN = 4
    /\ padOut = <<1, 2, 0, 0>>

----------------------------------------------------------------------------
(* Claims about generateEmbedding (SpecEmbed) *)

\* C3: for every provider and every requested `dimensions`, a generateEmbedding
\* call that resolves returns a vector of exactly `dimensions` elements.
C3_ResolvedVectorHasRequestedDimensions ==
    \A c \in Callers :
        calls[c].pc = "resolved" => calls[c].len = calls[c].dimensions

\* C4: in every execution, interleaved calls included, the local model is
\* loaded at most once and the gemini client is constructed at most once.
C4_InitialisedAtMostOnce ==
    /\ pipelineLoads <= 1
    /\ geminiClients <= 1

\* the options of a call are a configuration error: a remote provider with no
\* API key in the options or the environment, or an unrecognised provider
IsConfigError(options) ==
    \/ /\ options.provider = "gemini"
       /\ ~Truthy(options.apiKey) /\ ~Truthy(env.GEMINI_API_KEY)
    \/ /\ options.provider = "openai"
       /\ ~Truthy(options.apiKey) /\ ~Truthy(env.OPENAI_API_KEY)
    \/ options.provider \notin {Undefined, "local", "gemini", "openai"}

\* the message a configuration error carries
ConfigErrorMessage(options) ==
    CASE options.provider = "gemini" -> "GEMINI_API_KEY is required for Gemini embeddings"
      [] options.provider = "openai" -> "OPENAI_API_KEY is required for OpenAI embeddings"
      [] OTHER -> "Unknown embedding provider: " \o options.provider

\* C9: a generateEmbedding call whose options are a configuration error
\* rejects in the calling step with the error naming the missing key or the
\* unrecognised provider; no client is constructed, no backend is contacted,
\* the provider cache is unchanged and no vector is produced.
C9_ConfigErrorFailsBeforeAnyBackend ==
    [][\A c \in Callers :
          (issued' = issued + 1 /\ calls'[c].id = issued' /\ IsConfigError(calls'[c].options))
          => /\ calls'[c].pc = "rejected"
             /\ calls'[c].error = ConfigErrorMessage(calls'[c].options)
             /\ calls'[c].len = -1
             /\ calls'[c].handle = NoHandle
             /\ providerCache' = providerCache
             /\ pipelineLoads' = pipelineLoads
             /\ geminiClients' = geminiClients
             /\ backendRequests' = backendRequests]_vars

\* a gemini call without any key was rejected while nothing had been contacted
C9_Witness ==
    \E c \in Callers :
        /\ calls[c].pc = "rejected"
        /\ calls[c].options.provider = "gemini"
        /\ calls[c].options.apiKey = Undefined
        /\ env.GEMINI_API_KEY = Undefined
        /\ calls[c].error = "GEMINI_API_KEY is required for Gemini embeddings"
        /\ backendRequests = 0
        /\ providerCache.gemini = NoHandle

----------------------------------------------------------------------------
(* Claims about indexContent (Spec) *)

\* the positions of a run's trace holding the final event of a file: its
\* successful insert, or the read, embedding or insert that failed
Succeeds(e) == e.ev = "insert" /\ e.ok
Fails(e) == e.ev \in {"read", "embed", "insert"} /\ ~e.ok
SuccessEvents(trace) == {p \in 1..Len(trace) : Succeeds(trace[p])}
FailureEvents(trace) == {p \in 1..Len(trace) : Fails(trace[p])}

\* C1: when a run that found at least one file has completed, the table holds
\* exactly the documents the run counted in `success`: as many rows as
\* `success`, every row inserted by this run, one for each file whose insert
\* succeeded (also when a later file failed), and no row of an earlier run.
C1_TableHoldsExactlyTheSuccesses ==
    \A r \in Runners :
        (runs[r].pc = "done" /\ runs[r].result.total > 0) =>
            /\ Cardinality(table) = runs[r].result.success
            /\ \A row \in table : row.run = runs[r].id
            /\ {row.file : row \in table}
                 = {runs[r].trace[p].i : p \in SuccessEvents(runs[r].trace)}

\* the second run completed with a row inserted before a later file failed,
\* after an earlier run had inserted rows
C1_Witness ==
    /\ runs["a"].pc = "done"
    /\ runs["a"].id = 2
    /\ nextId > 2
    /\ runs["a"].result.success = 1
    /\ runs["a"].result.failed >= 1
    /\ \E row \in table : row.file = 1 /\ row.run = 2

\* C2: a run whose scan finds no file returns {success: 0, failed: 0, total: 0}
\* straight from the scan, and neither the call nor the return changes the
\* table, its id counter or its schema.
C2_EmptyScanLeavesStoreUntouched ==
    [][\A r \in Runners :
          /\ (runs[r].pc # "scanning" /\ runs'[r].pc = "scanning")
                => (table' = table /\ nextId' = nextId /\ schema' = schema)
          /\ (runs[r].pc = "scanning"
                /\ Len(findFiles(pathSep, runs[r].tree, ContentPath, ContentPath,
                                 DefaultFileExtensions, DefaultExclude)) = 0)
                => (table' = table /\ nextId' = nextId /\ schema' = schema)
          /\ (runs[r].pc = "scanning" /\ runs'[r].pc # "scanning"
                /\ ~readdirFails(runs[r].tree, DefaultExclude)
                /\ Len(findFiles(pathSep, runs[r].tree, ContentPath, ContentPath,
                                 DefaultFileExtensions, DefaultExclude)) = 0)
                => /\ runs'[r].pc = "done"
                   /\ runs'[r].result = [success |-> 0, failed |-> 0, total |-> 0]
                   /\ table' = table /\ nextId' = nextId /\ schema' = schema]_vars

\* a run over a tree without indexable files returned zeros while the rows of
\* an earlier run were in the table
C2_Witness ==
    /\ runs["a"].pc = "done"
    /\ runs["a"].id = 2
    /\ runs["a"].tree = TreeExcludedOnly
    /\ runs["a"].result = [success |-> 0, failed |-> 0, total |-> 0]
    /\ \E row \in table : row.run = 1

\* C5: a read, embedding or insert failure of one file adds one to `failed`,
\* leaves `success`, and the loop goes on to the next file: the run never
\* rejects because of it, and a completed run has read every file.
C5_FileFailureIsCountedAndSkipped ==
    /\ [][\A r \in Runners :
            (/\ runs'[r].id = runs[r].id
             /\ Len(runs'[r].trace) > Len(runs[r].trace)
             /\ Fails(runs'[r].trace[Len(runs[r].trace) + 1]))
            => /\ runs'[r].failed = runs[r].failed + 1
               /\ runs'[r].success = runs[r].success
               /\ runs'[r].i = runs[r].i + 1
               /\ runs'[r].pc \in {"reading", "done", "rejected"}
               /\ runs'[r].pc = "rejected" => runs'[r].error = "onProgress"
               /\ runs'[r].pc = "done" <=> (runs'[r].i = Len(runs[r].files)
                                               /\ runs'[r].pc # "rejected")]_vars
    /\ [](\A r \in Runners :
            /\ runs[r].pc = "rejected" => runs[r].error \in {"readdir", "DELETE", "onProgress"}
            /\ runs[r].pc = "done" =>
                 \A k \in 1..Len(runs[r].files) :
                    \E p \in 1..Len(runs[r].trace) :
                        runs[r].trace[p].ev = "read" /\ runs[r].trace[p].i = k)

\* a run completed although its first file failed and a later file was inserted
C5_Witness ==
    /\ runs["a"].pc = "done"
    /\ runs["a"].tree = TreeMixed
    /\ runs["a"].result = [success |-> 2, failed |-> 1, total |-> 3]
    /\ Fails(runs["a"].trace[1])

\* C6: in every state of a run success + failed is the number of files already
\* processed, each processed file having added one to exactly one counter; on
\* completion success + failed = total, the number of files the scan found.
C6_CountersPartitionProcessedFiles ==
    \A r \in Runners :
        LET f == runs[r]
            done == {f.trace[p].i : p \in SuccessEvents(f.trace) \cup FailureEvents(f.trace)}
        IN  /\ f.success = Cardinality(SuccessEvents(f.trace))
            /\ f.failed = Cardinality(FailureEvents(f.trace))
            /\ done = 1..(f.success + f.failed)
            /\ f.success + f.failed <= Len(f.files)
            /\ f.pc = "done" =>
                 /\ f.result.success + f.result.failed = f.result.total
                 /\ f.result.total = Len(f.files)
                 /\ f.result.success = f.success /\ f.result.failed = f.failed

\* a run is inserting its third file after one success and one failure
C6_Witness ==
    /\ runs["a"].pc = "inserting"
    /\ runs["a"].success = 1
    /\ runs["a"].failed = 1
    /\ Len(runs["a"].files) = 3

\* C7: no two rows of the table share a slug; when two files of a run derive
\* the same slug and the first was inserted, the second is counted in `failed`
\* and the one row with that slug carries the first file's data; an INSERT of
\* a document whose slug a row already holds leaves the table unchanged.
C7_SlugUniqueAndDuplicateFails ==
    /\ [](\A x, y \in table : x.slug = y.slug => x = y)
    /\ [](\A r \in Runners :
            LET f == runs[r]
            IN  \A k, j \in 1..Len(f.files) :
                  (/\ k < j
                   /\ Slug(f.files[k].relativePath) = Slug(f.files[j].relativePath)
                   /\ \E p \in SuccessEvents(f.trace) : f.trace[p].i = k
                   /\ f.success + f.failed >= j)
                  => /\ \E p \in FailureEvents(f.trace) : f.trace[p].i = j
                     /\ \A row \in table :
                           row.slug = Slug(f.files[k].relativePath)
                           => /\ row.file = k
                              /\ row.title = Title(f.files[k].title, f.files[k].relativePath))
    /\ [][\A r \in Runners :
            (/\ runs[r].pc = "inserting"
             /\ runs'[r] # runs[r]
             /\ \E row \in table : row.slug = runs[r].document.slug)
            => /\ table' = table
               /\ runs'[r].failed = runs[r].failed + 1
               /\ runs'[r].success = runs[r].success]_vars

\* a.md and a.markdown were indexed in one run: one row with slug "a", titled
\* from a.md, and the second file counted as failed
C7_Witness ==
    /\ runs["a"].pc = "done"
    /\ runs["a"].tree = TreeSameSlug
    /\ runs["a"].result = [success |-> 1, failed |-> 1, total |-> 2]
    /\ \E row \in table : row.slug = <<"a">> /\ row.title = S_First /\ row.file = 1
    /\ Cardinality(table) = 1

\* the positions of a run's trace holding an onProgress call
ProgressEvents(trace) == {p \in 1..Len(trace) : trace[p].ev = "progress"}

\* C8: a run with an onProgress callback calls it once per file, in increasing
\* order, with (i, N, relative path of file i); the call for file i follows the
\* final event of file i-1 and precedes every operation on file i; a completed
\* run has made exactly N calls.
C8_ProgressOncePerFileBeforeProcessing ==
    \A r \in Runners :
        LET f == runs[r]
            N == Len(f.files)
            calls_ == ProgressEvents(f.trace)
        IN  f.onProgress # "none" =>
              /\ \A p \in calls_ :
                    /\ f.trace[p].i \in 1..N
                    /\ f.trace[p].n = N
                    /\ f.trace[p].path = f.files[f.trace[p].i].relativePath
                    /\ f.trace[p].i = Cardinality({q \in calls_ : q <= p})
                    /\ \A q \in 1..Len(f.trace) :
                          /\ q < p => f.trace[q].i < f.trace[p].i
                          /\ q > p => f.trace[q].i >= f.trace[p].i
                    /\ f.trace[p].i > 1 =>
                          /\ p > 1
                          /\ f.trace[p - 1].i = f.trace[p].i - 1
                          /\ Succeeds(f.trace[p - 1]) \/ Fails(f.trace[p - 1])
              /\ \A q \in 1..Len(f.trace) :
                    \E p \in calls_ : p <= q /\ f.trace[p].i = f.trace[q].i
              /\ f.pc \in {"reading", "embedding", "inserting"} =>
                    \E p \in calls_ : f.trace[p].i = f.i + 1
              /\ f.pc = "done" => Cardinality(calls_) = N

\* a run over three files completed with three recorded calls, the first file
\* having failed
C8_Witness ==
    /\ runs["a"].pc = "done"
    /\ runs["a"].onProgress = "records"
    /\ Len(runs["a"].files) = 3
    /\ Cardinality(ProgressEvents(runs["a"].trace)) = 3
    /\ runs["a"].result.failed >= 1

----------------------------------------------------------------------------
(* Claims about the read operations (SpecRead) *)

\* the rows search can return: those whose embedding is not NULL
Candidates == {row \in table : row.embedding # -1}

\* C11: a search that resolves returns at most `limit` objects, each built from
\* a different row whose embedding is not NULL and carrying that row's cosine
\* distance to the query; the distances are non-decreasing; as many rows are
\* returned as `limit` and the table allow; and no omitted row with an
\* embedding is strictly closer to the query than a returned one.
C11_SearchReturnsTheNearestRows ==
    (reader.pc = "resolved" /\ reader.op = "search") =>
        LET out == reader.returned
            ids == {out[k].id : k \in 1..Len(out)}
        IN  /\ Len(out) <= reader.limit
            /\ Len(out) = Min(reader.limit, Cardinality(Candidates))
            /\ Cardinality(ids) = Len(out)
            /\ \A k \in 1..Len(out) :
                  \E row \in Candidates :
                     /\ row.id = out[k].id /\ row.slug = out[k].slug
                     /\ out[k].distance = Distance(row.vector, reader.query)
            /\ \A j, k \in 1..Len(out) :
                  j < k => DistanceLeq(out[j].distance, out[k].distance)
            /\ \A row \in Candidates :
                  row.id \notin ids =>
                     \A k \in 1..Len(out) :
                        DistanceLeq(out[k].distance, Distance(row.vector, reader.query))

\* a search with limit 1 over two rows with embeddings and one without returned
\* the nearer row; the omitted row with an embedding is strictly farther
C11_Witness ==
    /\ reader.pc = "resolved" /\ reader.op = "search"
    /\ reader.limit = 1
    /\ Cardinality(table) = 3
    /\ Cardinality(Candidates) = 2
    /\ Len(reader.returned) = 1
    /\ \E row \in Candidates :
          /\ row.id # reader.returned[1].id
          /\ ~DistanceLeq(Distance(row.vector, reader.query), reader.returned[1].distance)

\* the front-matter tags a row was indexed from are a sequence of strings
IndexedWithStrings(row) ==
    /\ row.source.kind = "array"
    /\ \A k \in 1..Len(row.source.items) : row.source.items[k].type = "string"

\* C12: every object that search, getAllArticles, getArticleBySlug or
\* getArticlesByFolder returns for a row indexed from front-matter tags that
\* are a sequence of strings T has tags equal to T: same elements, same order.
C12_TagsSurviveTheRoundTrip ==
    (reader.pc = "resolved"
        /\ reader.op \in {"search", "getAllArticles", "getArticleBySlug", "getArticlesByFolder"})
    => \A k \in 1..Len(reader.returned) :
          \A row \in table :
             (row.id = reader.returned[k].id /\ IndexedWithStrings(row))
             => reader.returned[k].tags = row.source.items

\* search returned the file indexed with the tags a"b and c,\d, with these tags
C12_Witness ==
    /\ reader.pc = "resolved" /\ reader.op = "search"
    /\ \E k \in 1..Len(reader.returned) :
          /\ reader.returned[k].slug = <<"n", "e", "s", "t", "e", "d", "/", "b">>
          /\ reader.returned[k].tags = <<Str(<<"a", "\"", "b">>), Str(<<"c", ",", "\\", "d">>)>>

----------------------------------------------------------------------------
(* Claims about the documents indexContent stores (Spec) *)

\* the file a row was written for, while the run that wrote it is the latest
SourceFile(row) == runs["a"].files[row.file]

\* front-matter tags that are a sequence of strings
WellFormedTags(frontMatterTags) ==
    /\ frontMatterTags.kind = "array"
    /\ \A k \in 1..Len(frontMatterTags.items) : frontMatterTags.items[k].type = "string"

\* C13: every row indexContent wrote has a tags column that is not NULL and
\* holds a sequence of strings, the empty sequence when the file's front-matter
\* tags are absent, not a sequence, or a sequence with a non-string element.
C13_StoredTagsAreStringSequences ==
    \A row \in table :
        row.run = runs["a"].id =>
            /\ row.tags # SqlNull
            /\ \A k \in 1..Len(ParseTags(row.tags)) : ParseTags(row.tags)[k].type = "string"
            /\ ~WellFormedTags(SourceFile(row).tags) => ParseTags(row.tags) = <<>>

RECURSIVE Components(_, _)
\* the components of a path under the separator sep
Components(path, sep) ==
    LET at == {k \in 1..Len(path) : path[k] = sep}
    IN  IF at = {} THEN <<path>>
        ELSE LET k == CHOOSE j \in at : \A i \in at : j <= i
             IN  <<SubSeq(path, 1, k - 1)>> \o Components(SubSeq(path, k + 1, Len(path)), sep)

RECURSIVE Joined(_, _)
\* the components written with sep between them
Joined(parts, sep) ==
    IF Len(parts) = 1 THEN parts[1]
    ELSE parts[1] \o <<sep>> \o Joined(Tail(parts), sep)

\* a file name without its .md or .markdown extension
Stem(name) ==
    IF extname(name) \in {S_md, S_markdown}
    THEN SubSeq(name, 1, Len(name) - Len(extname(name)))
    ELSE name

\* the slug and folder the relative path of a file stands for
ExpectedSlug(relativePath) ==
    LET parts == Components(relativePath, pathSep)
        n == Len(parts)
    IN  Joined(SubSeq(parts, 1, n - 1) \o <<Stem(parts[n])>>, "/")

ExpectedFolder(relativePath) ==
    LET parts == Components(relativePath, pathSep)
        n == Len(parts)
    IN  IF n = 1 THEN S_root ELSE Joined(SubSeq(parts, 1, n - 1), pathSep)

\* C14: the slug of every document and row is the file's relative path without
\* its .md/.markdown extension and with "/" between its components, and the
\* folder is the directory part of the relative path, "root" for a file directly
\* in contentPath; both are functions of the relative path alone.
C14_SlugAndFolderFromRelativePath ==
    LET f == runs["a"]
    IN  /\ f.pc \in {"embedding", "inserting"} =>
              /\ f.document.slug = ExpectedSlug(f.files[f.i + 1].relativePath)
              /\ f.document.folder = ExpectedFolder(f.files[f.i + 1].relativePath)
        /\ \A row \in table :
              row.run = f.id =>
                  /\ row.slug = ExpectedSlug(SourceFile(row).relativePath)
                  /\ row.folder = ExpectedFolder(SourceFile(row).relativePath)

\* on a platform whose separator is the backslash, nested\my-a.md was stored
\* with slug nested/my-a and folder nested, next to a row of folder root
C14_Witness ==
    /\ pathSep = "\\"
    /\ \E row \in table :
          /\ row.run = runs["a"].id
          /\ SourceFile(row).relativePath = S_nested \o <<"\\", "m", "y", "-", "a", ".", "m", "d">>
          /\ row.slug = S_nested \o <<"/", "m", "y", "-", "a">>
          /\ row.folder = S_nested
    /\ \E row \in table : row.folder = S_root /\ row.slug = <<"a">>

\* the title a file's name alone gives: its last path component without the
\* markdown extension, hyphens as spaces
TitleFromName(relativePath) ==
    LET parts == Components(relativePath, pathSep)
    IN  ReplaceAll(Stem(parts[Len(parts)]), "-", " ")

\* C15: the title of every stored row is the front-matter title when that is
\* present and non-empty, otherwise the file's name alone without directory
\* part and extension and with hyphens as spaces, otherwise "Untitled".
C15_TitleFromFrontMatterOrFileName ==
    \A row \in table :
        row.run = runs["a"].id =>
            LET file == SourceFile(row)
                fromName == TitleFromName(file.relativePath)
            IN  row.title = IF file.title # <<>> THEN file.title
                            ELSE IF fromName # <<>> THEN fromName
                            ELSE S_Untitled

----------------------------------------------------------------------------
(* Claims about createTable (Spec) *)

\* the number of entries of the index catalogue with the given name
Copies(name) == Cardinality({k \in 1..Len(schema.indexes) : schema.indexes[k] = name})

(* C16: createTable is idempotent. No state holds two copies of an index;    *)
(* once a call has returned, there is one table with exactly one copy of     *)
(* each of its three indexes; no step of createTable changes the rows or     *)
(* drops the table, a complete table is left as it is, and the only error a  *)
(* call rejects with is the store's own, never that of a table or index that *)
(* exists already                                                            *)
C16_CreateTableIsIdempotent ==
    /\ [](\A k \in 1..3 : Copies(TableIndexes[k]) <= 1)
    /\ [](ddl.pc = "resolved" =>
            /\ schema.exists
            /\ Len(schema.indexes) = 3
            /\ \A k \in 1..3 : Copies(TableIndexes[k]) = 1)
    /\ [][ddl' # ddl =>
            /\ table' = table /\ nextId' = nextId
            /\ schema.exists => schema'.exists
            /\ (schema.exists /\ Len(schema.indexes) = 3) => schema' = schema
            /\ ddl'.pc = "rejected" =>
                  (ddl'.error = "store unavailable" /\ schema' = schema)]_vars

\* a second createTable call returned while the table held rows
C16_Witness ==
    /\ ddl.calls = 2
    /\ ddl.pc = "resolved"
    /\ ddl.rows > 0
    /\ Cardinality(table) = ddl.rows
    /\ Len(schema.indexes) = 3

----------------------------------------------------------------------------
(* Claims about lookups and listings (SpecRead) *)

\* C17: on an existing table no read operation fails for want of rows: on an
\* empty table search, getAllArticles, getArticlesByFolder and getFolders
\* resolve with an empty sequence and getArticleBySlug with null; on any table
\* getArticleBySlug(s) resolves with the object of the one row whose slug is s,
\* and with null when there is none, and getArticlesByFolder(f) resolves with
\* an empty sequence when no row has folder f.
C17_AbsenceIsAValue ==
    reader.pc = "resolved" =>
        /\ (table = {} /\ reader.op # "getArticleBySlug") =>
              reader.returned = <<>> /\ ~reader.null
        /\ reader.op = "getArticleBySlug" =>
              IF \E row \in table : row.slug = reader.slug
              THEN /\ ~reader.null
                   /\ Len(reader.returned) = 1
                   /\ \A row \in table :
                         row.slug = reader.slug => reader.returned[1] = Article(row)
              ELSE reader.null /\ reader.returned = <<>>
        /\ reader.op # "getArticleBySlug" => ~reader.null
        /\ (reader.op = "getArticlesByFolder"
                /\ ~\E row \in table : row.folder = reader.folder)
              => reader.returned = <<>>

\* getArticleBySlug resolved with null on a table that holds other rows
C17_Witness ==
    /\ reader.pc = "resolved" /\ reader.op = "getArticleBySlug"
    /\ reader.null
    /\ table # {}
    /\ reader.slug = <<"z">>

----------------------------------------------------------------------------
(* Claims about prepareTextForEmbedding (SpecText) *)

\* the parts of the fields that are present and non-empty, in the fixed order
PresentParts ==
    LET f == textFields
        part(given, text) == IF given THEN <<text>> ELSE <<>>
    IN  part(f.title # NoText /\ f.title # <<>>, f.title)
     \o part(f.description # NoText /\ f.description # <<>>, f.description)
     \o part(f.tags # NoTags /\ f.tags # <<>>, TagsLine(f.tags))
     \o part(f.content # NoText /\ f.content # <<>>, f.content)

RECURSIVE Paragraphs(_)
\* the pieces of a text between its blank lines (two newlines)
Paragraphs(text) ==
    LET at == {k \in 1..(Len(text) - 1) : text[k] = "\n" /\ text[k + 1] = "\n"}
    IN  IF at = {} THEN <<text>>
        ELSE LET k == CHOOSE j \in at : \A i \in at : j <= i
             IN  <<SubSeq(text, 1, k - 1)>> \o Paragraphs(SubSeq(text, k + 2, Len(text)))

\* C18: the text returned consists of the present, non-empty parts in the order
\* title, description, "Tags: " with the tags joined by ", ", content, with
\* exactly two newlines between consecutive parts and nothing before the first
\* or after the last; with no part present it is empty.
C18_PartsJoinedByBlankLines ==
    textPc = "out" =>
        /\ PresentParts = <<>> => textOut = <<>>
        /\ PresentParts # <<>> => Paragraphs(textOut) = PresentParts
        /\ Len(textOut) = (IF PresentParts = <<>> THEN 0
                           ELSE Len(JoinTexts(PresentParts, <<>>))
                                   + 2 * (Len(PresentParts) - 1))

\* {title: "T", tags: ["a", "b"], description: ""} gave "T\n\nTags: a, b"
C18_Witness ==
    /\ textPc = "out"
    /\ textFields.title = <<"T">>
    /\ textFields.description = <<>>
    /\ textFields.content = NoText
    /\ textFields.tags = << <<"a">>, <<"b">> >>
    /\ textOut = <<"T", "\n", "\n", "T", "a", "g", "s", ":", " ", "a", ",", " ", "b">>

----------------------------------------------------------------------------
(* Claims about the scan (Spec) *)

RECURSIVE EveryFile(_, _)
\* every file of a tree, at any depth, with the names of the directories above it
EveryFile(entries, dirs) ==
    IF entries = <<>> THEN <<>>
    ELSE LET entry == Head(entries)
             here == IF entry.kind = "dir"
                     THEN EveryFile(entry.entries, Append(dirs, entry.name))
                     ELSE << [dirs |-> dirs, name |-> entry.name] >>
         IN  here \o EveryFile(Tail(entries), dirs)

\* some directory above the file is named in `exclude` or starts with "."
UnderExcluded(dirs) ==
    \E k \in 1..Len(dirs) : dirs[k] \in DefaultExclude \/ dirs[k][1] = "."

\* the files with an indexed extension that lie under no such directory
Indexable(tree) ==
    SelectSeq(EveryFile(tree, <<>>),
              LAMBDA f : ~UnderExcluded(f.dirs) /\ extname(f.name) \in DefaultFileExtensions)

\* C19: the files a scan discovers are exactly the files with an indexed
\* extension that lie, at any depth, under no directory named in `exclude` or
\* starting with "."; only these are counted in `total`, passed to onProgress
\* or inserted, and a tree with no other matching files gives total = 0.
C19_ExcludedDirectoriesAreNeverScanned ==
    LET f == runs["a"]
        seen == Indexable(f.tree)
    IN  /\ f.pc \in {"clearing", "reading", "embedding", "inserting", "done"} =>
              /\ Len(f.files) = Len(seen)
              /\ \A k \in 1..Len(seen) :
                    f.files[k].relativePath = Joined(Append(seen[k].dirs, seen[k].name), pathSep)
        /\ f.pc = "done" => f.result.total = Len(seen)
        /\ \A p \in 1..Len(f.trace) :
              /\ f.trace[p].n = Len(seen)
              /\ \E k \in 1..Len(seen) :
                    f.trace[p].path = Joined(Append(seen[k].dirs, seen[k].name), pathSep)
        /\ \A row \in table :
              row.run = f.id =>
                  LET parts == Components(SourceFile(row).relativePath, pathSep)
                  IN  ~UnderExcluded(SubSeq(parts, 1, Len(parts) - 1))

\* a run with an onProgress callback completed over a tree with matching files
\* below node_modules, nested/dist and nested/.h, which it did not count
C19_Witness ==
    /\ runs["a"].pc = "done"
    /\ runs["a"].tree = TreeMixed
    /\ runs["a"].onProgress = "records"
    /\ runs["a"].result.total = 3
    /\ Cardinality({k \in 1..Len(EveryFile(TreeMixed, <<>>)) :
                        /\ UnderExcluded(EveryFile(TreeMixed, <<>>)[k].dirs)
                        /\ Len(EveryFile(TreeMixed, <<>>)[k].dirs) = 2}) = 2
    /\ table # {}

----------------------------------------------------------------------------
(* Claims about the order of listings (SpecRead) *)

\* the sequence s holds each element of the set S exactly once
Enumerates(s, S) ==
    /\ Len(s) = Cardinality(S)
    /\ {s[k] : k \in 1..Len(s)} = S

\* C20: getAllArticles returns the object of every row of the table, each
\* once, in ascending title order; getArticlesByFolder(f) returns the objects
\* of exactly the rows whose folder is f, in ascending title order; getFolders
\* returns every folder that occurs in the table once, in ascending order.
C20_ListingsAreCompleteAndOrdered ==
    reader.pc = "resolved" =>
        LET out == reader.returned
        IN  /\ reader.op = "getAllArticles" =>
                  /\ Enumerates(out, {Article(row) : row \in table})
                  /\ \A j, k \in 1..Len(out) :
                        j < k => ~TextLess(out[k].title, out[j].title)
            /\ reader.op = "getArticlesByFolder" =>
                  /\ Enumerates(out, {Article(row) :
                                         row \in {x \in table : x.folder = reader.folder}})
                  /\ \A j, k \in 1..Len(out) :
                        j < k => ~TextLess(out[k].title, out[j].title)
            /\ reader.op = "getFolders" =>
                  /\ Enumerates(out, {row.folder : row \in table})
                  /\ \A j, k \in 1..Len(out) : j < k => TextLess(out[j], out[k])

\* getAllArticles returned three rows titled First, Zed and apple in this order
C20_Witness ==
    /\ reader.pc = "resolved" /\ reader.op = "getAllArticles"
    /\ Len(reader.returned) = 3
    /\ reader.returned[1].title = S_First
    /\ reader.returned[2].title = S_Zed
    /\ reader.returned[3].title = S_apple
    /\ reader.returned[1].id < reader.returned[2].id

----------------------------------------------------------------------------
(* C21: a gemini call that has reached embedContent, or has resolved, runs on *)
(* a client built with the API key the call itself resolved, whatever keys    *)
(* earlier gemini calls were given                                            *)
C21_GeminiCallRunsWithItsOwnKey ==
    \A c \in Callers :
        (/\ calls[c].provider = "gemini"
         /\ calls[c].pc \in {"embedding", "resolved"})
        => calls[c].handle.key = calls[c].apiKey

----------------------------------------------------------------------------
\* an event that ends a file's iteration: its INSERT settled, or a step failed
Terminal(e) == e.ev = "insert" \/ ~e.ok

\* the events of file number n in a trace, in order
EventsOf(t, n) == SelectSeq(t, LAMBDA e : e.i = n)

(* C22: a run works on one file at a time, in enumeration order: the events  *)
(* of a run never go back to an earlier file, no step of a file happens      *)
(* twice, while file i+1 is being read, embedded or inserted every earlier   *)
(* file has ended with its INSERT settled or a failure, and the rows of a    *)
(* run get their ids in enumeration order                                    *)
C22_FilesAreProcessedOneAfterAnother ==
    LET frame == runs["a"]
        t == frame.trace
    IN  /\ \A j, k \in 1..Len(t) :
              j < k => /\ t[j].i <= t[k].i
                       /\ (t[j].i = t[k].i => t[j].ev # t[k].ev)
        /\ frame.pc \in {"reading", "embedding", "inserting"} =>
              /\ \A n \in 1..frame.i :
                    LET es == EventsOf(t, n)
                    IN  Len(es) > 0 /\ Terminal(es[Len(es)])
              /\ \A k \in 1..Len(t) :
                    /\ t[k].i <= frame.i + 1
                    /\ (t[k].i = frame.i + 1 => ~Terminal(t[k]))
        /\ \A x, y \in table :
              (x.run = y.run /\ x.file < y.file) => x.id < y.id

\* the third file's INSERT is in flight after the second file's row was stored
C22_Witness ==
    /\ runs["a"].pc = "inserting"
    /\ runs["a"].i = 2
    /\ \E row \in table : row.run = runs["a"].id /\ row.file = 2

----------------------------------------------------------------------------
(* C23: when a directory the scan lists cannot be listed, every readdir that  *)
(* settles leaves the table as it was and either continues the scan or       *)
(* rejects the run with that error, so that no DELETE is ever issued and no  *)
(* file processed; when the DELETE fails, the run rejects with the table as  *)
(* it was and without a row of its own                                       *)
C23_FailedScanOrClearInsertsNothing ==
    [][LET before == runs["a"]
           after == runs["a"]'
       IN  /\ (before.pc = "scanning" /\ readdirFails(before.tree, DefaultExclude))
                 => /\ after.pc \in {"scanning", "rejected"}
                    /\ after.pc = "rejected" => after.error = "readdir"
                    /\ after.trace = <<>>
                    /\ table' = table
                    /\ nextId' = nextId
           /\ (before.pc = "clearing" /\ after.error = "DELETE")
                 => /\ after.pc = "rejected"
                    /\ after.trace = <<>>
                    /\ table' = table
                    /\ nextId' = nextId
                    /\ ~\E row \in table' : row.run = after.id]_vars

\* a run rejected by an unlistable directory while an earlier run's rows remain
C23_Witness ==
    /\ runs["a"].pc = "rejected"
    /\ runs["a"].error = "readdir"
    /\ \E row \in table : row.run < runs["a"].id

----------------------------------------------------------------------------
\* the onProgress call of a file threw
Threw(e) == e.ev = "progress" /\ ~e.ok

(* C24: when onProgress throws for file i, that is the run's last event: the *)
(* run is rejected with the callback's error and returns no summary, the     *)
(* counters stand at the i-1 files processed before, no read, embedding or   *)
(* INSERT was made for file i or a later file, and the table holds exactly   *)
(* the rows this run inserted for files before i, one per counted success    *)
C24_ThrowingCallbackRejectsTheRun ==
    LET f == runs["a"]
        t == f.trace
    IN  \A p \in 1..Len(t) :
            Threw(t[p]) =>
                /\ p = Len(t)
                /\ f.pc = "rejected"
                /\ f.error = "onProgress"
                /\ f.result = NoResult
                /\ t[p].i = f.i + 1
                /\ f.success = Cardinality(SuccessEvents(t))
                /\ f.failed = Cardinality(FailureEvents(t))
                /\ f.success + f.failed = t[p].i - 1
                /\ \A q \in 1..Len(t) : q # p => t[q].i < t[p].i
                /\ \A row \in table : row.run = f.id /\ row.file < t[p].i
                /\ Cardinality(table) = f.success
                /\ \A q \in SuccessEvents(t) :
                      \E row \in table : row.file = t[q].i

\* the callback threw for the third file after one failure and one stored row
C24_Witness ==
    /\ runs["a"].pc = "rejected"
    /\ runs["a"].error = "onProgress"
    /\ runs["a"].i = 2
    /\ runs["a"].success = 1
    /\ runs["a"].failed = 1
    /\ Cardinality(table) = 1

----------------------------------------------------------------------------
(* C25: a step in which a call's initialisation fails leaves the provider    *)
(* cache as it was, and a slot of the provider cache that holds a handle     *)
(* holds that same handle after every step                                   *)
C25_FilledSlotIsNeverReplaced ==
    [][/\ \A c \in Callers :
             (calls[c].pc \in {"loading", "importing"} /\ calls'[c].pc = "rejected")
             => providerCache' = providerCache
       /\ providerCache.local # NoHandle => providerCache'.local = providerCache.local
       /\ providerCache.gemini # NoHandle => providerCache'.gemini = providerCache.gemini]_vars

----------------------------------------------------------------------------
\* `dimensions: number = 768` of createTable
DeclaredBy(dimensions) ==
    IF dimensions = UndefinedNum THEN DefaultDimensions ELSE dimensions

(* C26: the statement that creates the table is the first of a createTable   *)
(* call and declares the vector column with that call's dimensions; from     *)
(* then on no step changes the declared dimensionality, and no step of a     *)
(* later createTable call, whatever its dimensions, changes the rows or      *)
(* fails for another reason than the store's own                             *)
C26_DimensionsFixedByFirstCreate ==
    [][/\ schema.exists => (schema'.exists /\ schema'.dimensions = schema.dimensions)
       /\ (~schema.exists /\ schema'.exists) =>
             /\ ddl.pc = "pending" /\ ddl.settled = 0
             /\ schema'.dimensions = DeclaredBy(ddl.dimensions)
       /\ ddl' # ddl => table' = table
       /\ (ddl.pc = "pending" /\ schema.exists
             /\ DeclaredBy(ddl.dimensions) # schema.dimensions
             /\ ddl'.pc # "pending") =>
             \/ ddl'.pc = "resolved"
             \/ ddl'.pc = "rejected" /\ ddl'.error = "store unavailable"]_vars

\* a second createTable call asked for 384 dimensions on a table declared with
\* 768 that held rows, and returned
C26_Witness ==
    /\ ddl.calls = 2
    /\ ddl.pc = "resolved"
    /\ ddl.dimensions = 384
    /\ schema.dimensions = DefaultDimensions
    /\ ddl.rows > 0
    /\ \A row \in table : row.embedding = DefaultDimensions
    /\ Cardinality(table) = ddl.rows

----------------------------------------------------------------------------
(* Claims about overlapping runs (SpecConcurrent) *)

\* the slug file number k of a run's enumeration is stored under
SlugOf(frame, k) == Document(frame.files[k]).slug

\* the rows stored under a slug
RowsOf(slug) == {row \in table : row.slug = slug}

\* both callers' runs went over the same tree and returned their summaries,
\* every embedding they asked for having succeeded
BothCompleted ==
    /\ \A r \in Runners :
          /\ runs[r].pc = "done"
          /\ runs[r].files # <<>>
          /\ \A p \in 1..Len(runs[r].trace) :
                runs[r].trace[p].ev = "embed" => runs[r].trace[p].ok
    /\ runs["a"].tree = runs["b"].tree

\* each run's summary accounts for every file it found
SummariesAddUp ==
    \A r \in Runners :
        /\ runs[r].result.total = Len(runs[r].files)
        /\ runs[r].result.success + runs[r].result.failed = runs[r].result.total

EveryInsertFailed(r, slug) ==
    LET t == runs[r].trace
        attempts == {p \in 1..Len(t) :
                        /\ t[p].ev = "insert"
                        /\ SlugOf(runs[r], t[p].i) = slug}
    IN  attempts # {} /\ \A p \in attempts : ~t[p].ok

=============================================================================
